---- MODULE Spec2Model ----
(***************************************************************************)
(* EIP-712 typed-data hashing (eip-712/src/types.rs, eip-712/src/hasher.rs) *)
(* and the unsigned transaction pre-image of                                *)
(* blockchain-transaction-types/src/models/ethereum_transaction.rs.         *)
(*                                                                          *)
(* Strings are sequences of one-character strings, byte strings are         *)
(* sequences of 0..255, big integers are a sign and a big-endian magnitude  *)
(* without leading zero bytes.  keccak256 is modelled as an injective       *)
(* symbolic function of the bytes written to it.                            *)
(***************************************************************************)
EXTENDS Integers, Sequences, FiniteSets, TLC

VARIABLES typed_data, built, struct_types, type_hash_cell, domain_separator,
          call, ret, request, chain_id, signing

vars == <<typed_data, built, struct_types, type_hash_cell, domain_separator,
          call, ret, request, chain_id, signing>>

(***************************************************************************)
(* Results, options                                                         *)
(***************************************************************************)
Ok(v) == [ok |-> TRUE, val |-> v]

Err(msg) == [ok |-> FALSE, err |-> msg]

None == [some |-> FALSE]

Some(v) == [some |-> TRUE, v |-> v]

(***************************************************************************)
(* Characters and strings                                                   *)
(***************************************************************************)
\* Printable ASCII, code 32 first (three characters are spelled out).
Printable ==
  << " ", "!", "dquote", "#", "$", "%", "&", "'", "(", ")", "*", "+", ",", "-", ".", "/",
     "0", "1", "2", "3", "4", "5", "6", "7", "8", "9", ":", ";", "<", "=", ">", "?",
     "@", "A", "B", "C", "D", "E", "F", "G", "H", "I", "J", "K", "L", "M", "N", "O",
     "P", "Q", "R", "S", "T", "U", "V", "W", "X", "Y", "Z", "[", "backslash", "]", "^", "_",
     "backtick", "a", "b", "c", "d", "e", "f", "g", "h", "i", "j", "k", "l", "m", "n", "o",
     "p", "q", "r", "s", "t", "u", "v", "w", "x", "y", "z", "{", "|", "}", "~" >>

AsciiTable == [c \in {Printable[i] : i \in 1..Len(Printable)} |->
                 31 + CHOOSE i \in 1..Len(Printable) : Printable[i] = c]

Ascii(c) == AsciiTable[c]

AsBytes(s) == [i \in 1..Len(s) |-> Ascii(s[i])]

IsDigit(c) == Ascii(c) >= 48 /\ Ascii(c) <= 57

IsLower(c) == Ascii(c) >= 97 /\ Ascii(c) <= 122

IsUpper(c) == Ascii(c) >= 65 /\ Ascii(c) <= 90

Min(a, b) == IF a <= b THEN a ELSE b

\* Ord for str: bytewise lexicographic, a proper prefix sorts first.
StrLess(a, b) ==
  \E i \in 1..(Min(Len(a), Len(b)) + 1) :
     /\ \A j \in 1..(i - 1) : a[j] = b[j]
     /\ IF i > Len(a) THEN i <= Len(b)
        ELSE i <= Len(b) /\ Ascii(a[i]) < Ascii(b[i])

StartsWith(s, p) == Len(s) >= Len(p) /\ SubSeq(s, 1, Len(p)) = p

\* str::strip_prefix(p).unwrap_or(s)
StripPrefix(s, p) == IF StartsWith(s, p) THEN SubSeq(s, Len(p) + 1, Len(s)) ELSE s

RECURSIVE Format(_)
\* format!("{}", n) of an unsigned number
Format(n) ==
  IF n < 10 THEN <<Printable[17 + n]>>
  ELSE Format(n \div 10) \o <<Printable[17 + (n % 10)]>>

RECURSIVE DecValue(_)
DecValue(s) == IF s = <<>> THEN 0 ELSE 10 * DecValue(SubSeq(s, 1, Len(s) - 1)) + (Ascii(s[Len(s)]) - 48)

\* usize::from_str_radix(s, 10): an optional '+', then one or more digits.
\* Inputs of the model stay below MaxSizeDigits digits, far from usize::MAX.
MaxSizeDigits == 4

ParseUsize(s) ==
  LET body == StripPrefix(s, <<"+">>)
  IN  IF body # <<>> /\ Len(body) <= MaxSizeDigits /\ \A i \in 1..Len(body) : IsDigit(body[i])
      THEN Ok(DecValue(body))
      ELSE Err("ParseIntError")

(***************************************************************************)
(* types.rs                                                                 *)
(***************************************************************************)
Type_Address == [t |-> "Address"]

Type_Bool == [t |-> "Bool"]

Type_Bytes == [t |-> "Bytes"]

Type_String == [t |-> "String"]

Type_Uint(size, name) == [t |-> "Uint", size |-> size, name |-> name]

Type_Int(size, name) == [t |-> "Int", size |-> size, name |-> name]

Type_FixedBytes(size, name) == [t |-> "FixedBytes", size |-> size, name |-> name]

Type_FixedArray(size, name, full) == [t |-> "FixedArray", size |-> size, name |-> name, full |-> full]

Type_Array(name, full) == [t |-> "Array", name |-> name, full |-> full]

Type_Struct(name) == [t |-> "Struct", name |-> name]

s_address == <<"a", "d", "d", "r", "e", "s", "s">>

s_bool == <<"b", "o", "o", "l">>

s_string == <<"s", "t", "r", "i", "n", "g">>

s_bytes == <<"b", "y", "t", "e", "s">>

s_int == <<"i", "n", "t">>

s_uint == <<"u", "i", "n", "t">>

\* The (name, type) entries primitive_types() inserts: bytes1..bytes32,
\* int8..int256 and uint8..uint256 in steps of 8, address, bool, string, bytes.
PrimitiveEntries ==
  {<<s_bytes \o Format(n), Type_FixedBytes(n, s_bytes \o Format(n))>> : n \in 1..32}
  \cup {<<s_int \o Format(8 * k), Type_Int(8 * k, s_int \o Format(8 * k))>> : k \in 1..32}
  \cup {<<s_uint \o Format(8 * k), Type_Uint(8 * k, s_uint \o Format(8 * k))>> : k \in 1..32}
  \cup {<<s_address, Type_Address>>, <<s_bool, Type_Bool>>, <<s_string, Type_String>>,
        <<s_bytes, Type_Bytes>>}

PrimitiveNames == {p[1] : p \in PrimitiveEntries}

\* PRIMITIVE_TYPES
primitive_types == [n \in PrimitiveNames |-> (CHOOSE p \in PrimitiveEntries : p[1] = n)[2]]

is_primitive_type(ident) == ident \in PrimitiveNames

IsIdentStart(c) == IsLower(c) \/ IsUpper(c) \/ c = "$" \/ c = "_"

IsIdentPart(c) == IsIdentStart(c) \/ IsDigit(c)

\* Regex ^[a-zA-Z$_][a-zA-Z0-9$_]+$
is_ident(ident) ==
  /\ Len(ident) >= 2
  /\ IsIdentStart(ident[1])
  /\ \A i \in 2..Len(ident) : IsIdentPart(ident[i])

\* str::find(c): index of the first occurrence, 0 when there is none
Find(s, c) ==
  IF \E i \in 1..Len(s) : s[i] = c
  THEN CHOOSE i \in 1..Len(s) : s[i] = c /\ \A j \in 1..(i - 1) : s[j] # c
  ELSE 0

\* str::rfind(c): index of the last occurrence, 0 when there is none
RFind(s, c) ==
  IF \E i \in 1..Len(s) : s[i] = c
  THEN CHOOSE i \in 1..Len(s) : s[i] = c /\ \A j \in (i + 1)..Len(s) : s[j] # c
  ELSE 0

try_from_name(name) ==
  IF name \in PrimitiveNames THEN Ok(primitive_types[name])
  ELSE IF is_ident(name) THEN Ok(Type_Struct(name))
  ELSE LET begin == Find(name, "[")
           end == IF begin = 0 THEN 0 ELSE RFind(SubSeq(name, begin, Len(name)), "]")
       IN  IF begin # 0 /\ end # 0
           THEN LET ident == SubSeq(name, 1, begin - 1)
                    size == SubSeq(name, begin + 1, begin + end - 2)
                IN  IF size = <<>> THEN Ok(Type_Array(ident, name))
                    ELSE IF ParseUsize(size).ok
                         THEN Ok(Type_FixedArray(ParseUsize(size).val, ident, name))
                         ELSE Err("invalid type name")
           ELSE Err("invalid type name")

\* Every width that has a primitive name taken as valid
is_valid_any_named_width(type) ==
  CASE type.t \in {"Uint", "Int"} -> type.size % 8 = 0
    [] type.t = "FixedBytes" -> 0 < type.size /\ type.size <= 32
    [] OTHER -> TRUE

is_valid(type) ==
  CASE type.t \in {"Address", "Bool", "Bytes", "String"} -> TRUE
    [] type.t \in {"Uint", "Int"} -> type.size \in {8, 16, 32, 64, 128, 256}
    [] type.t = "FixedBytes" -> 0 < type.size /\ type.size <= 32
    [] OTHER -> TRUE

type_name(type) ==
  CASE type.t = "Address" -> s_address
    [] type.t = "Bool" -> s_bool
    [] type.t = "Bytes" -> s_bytes
    [] type.t = "String" -> s_string
    [] OTHER -> type.name

\* The element name in place of the name with its brackets
reference_name_of_element(type) == type_name(type)

reference_name(type) ==
  IF type.t \in {"FixedArray", "Array"} THEN type.full ELSE type_name(type)

is_array(type) == type.t \in {"FixedArray", "Array"}

is_struct(type) == type.t = "Struct"

is_struct_ref(type) == is_struct(type) \/ (is_array(type) /\ ~is_primitive_type(type_name(type)))

remove_reference(type) == IF is_array(type) THEN try_from_name(type_name(type)) ELSE Ok(type)

(***************************************************************************)
(* Big integers (num::BigUint, num::BigInt) as used by hash_value           *)
(***************************************************************************)
RECURSIVE StripZeros(_)
\* Normal form of a magnitude: no leading zero element.
StripZeros(ds) == IF ds # <<>> /\ ds[1] = 0 THEN StripZeros(Tail(ds)) ELSE ds

\* Digit value of a character in BigUint::from_str_radix; 255 is no digit.
DigitValue(c) ==
  IF IsDigit(c) THEN Ascii(c) - 48
  ELSE IF IsLower(c) THEN Ascii(c) - 97 + 10
  ELSE IF IsUpper(c) THEN Ascii(c) - 65 + 10
  ELSE 255

\* Big-endian base-16 digits to big-endian bytes.
NibblesToBytes(ds) ==
  LET n == StripZeros(ds)
      e == IF Len(n) % 2 = 1 THEN <<0>> \o n ELSE n
  IN  [i \in 1..(Len(e) \div 2) |-> 16 * e[2 * i - 1] + e[2 * i]]

\* BigUint::parse_bytes(s, 16): one leading '+' is dropped, '_' between
\* digits is skipped, an empty string or any other character is None.
parse_bytes(s) ==
  LET body == IF StartsWith(s, <<"+">>) /\ ~StartsWith(Tail(s), <<"+">>) THEN Tail(s) ELSE s
      kept == SelectSeq(body, LAMBDA c : c # "_")
  IN  IF body = <<>> \/ body[1] = "_" THEN None
      ELSE IF \E i \in 1..Len(kept) : DigitValue(kept[i]) >= 16 THEN None
      ELSE Some(NibblesToBytes([i \in 1..Len(kept) |-> DigitValue(kept[i])]))

\* BigInt::from_biguint(sign, magnitude): zero has no sign.
from_biguint(neg, mag) == [neg |-> neg /\ mag # <<>>, mag |-> mag]

\* BigUint::to_bytes_be: zero is the single byte 0.
to_bytes_be(mag) == IF mag = <<>> THEN <<0>> ELSE mag

RECURSIVE twos_complement_be(_, _)
RECURSIVE twos_complement_be_inverted(_, _)
\* Every byte inverted, the one not added
twos_complement_be_inverted(bytes, carry) ==
  IF bytes = <<>> THEN <<>>
  ELSE twos_complement_be_inverted(SubSeq(bytes, 1, Len(bytes) - 1), carry)
         \o <<255 - bytes[Len(bytes)]>>

\* Invert every byte and add one, from the least significant byte.
twos_complement_be(bytes, carry) ==
  IF bytes = <<>> THEN <<>>
  ELSE LET last == 255 - bytes[Len(bytes)]
           d == IF carry THEN (last + 1) % 256 ELSE last
       IN  twos_complement_be(SubSeq(bytes, 1, Len(bytes) - 1), carry /\ d = 0) \o <<d>>

\* BigInt::to_signed_bytes_be: the shortest two's-complement representation.
to_signed_bytes_be(int) ==
  LET bytes == to_bytes_be(int.mag)
      first == bytes[1]
      ext == IF first > 127
                /\ ~(first = 128 /\ (\A i \in 2..Len(bytes) : bytes[i] = 0) /\ int.neg)
             THEN <<0>> \o bytes ELSE bytes
  IN  IF int.neg THEN twos_complement_be(ext, TRUE) ELSE ext

(***************************************************************************)
(* serde_json::Value                                                        *)
(***************************************************************************)
JNull == [t |-> "Null"]

JBool(b) == [t |-> "Bool", b |-> b]

\* kind is "PosInt" (u64), "NegInt" (i64 below zero) or "Float"; mag is the
\* magnitude of an integer.
JNumber(kind, mag) == [t |-> "Number", kind |-> kind, mag |-> mag]

JString(s) == [t |-> "String", s |-> s]

JArray(a) == [t |-> "Array", a |-> a]

\* o is the sequence of <<key, value>> entries, keys distinct.
JObject(o) == [t |-> "Object", o |-> o]

as_u64(number) == IF number.kind = "PosInt" THEN Some(number.mag) ELSE None

as_i64(number) ==
  IF number.kind = "NegInt" THEN Some(from_biguint(TRUE, number.mag))
  ELSE IF number.kind = "PosInt" /\ (Len(number.mag) < 8 \/ number.mag[1] < 128)
       THEN Some(from_biguint(FALSE, number.mag))
       ELSE None

Keys(obj) == {obj[i][1] : i \in 1..Len(obj)}

\* Map::get
ObjGet(obj, key) ==
  IF key \in Keys(obj) THEN Some(obj[CHOOSE i \in 1..Len(obj) : obj[i][1] = key][2]) ELSE None

(***************************************************************************)
(* Keccak and H256                                                          *)
(***************************************************************************)
\* An H256 is [raw |-> 32 bytes] or a digest [keccak |-> stream]; a stream is
\* a sequence of such values and of raw chunks, adjacent raw chunks merged.
IsRaw(h) == "raw" \in DOMAIN h

Raw(bytes) == [raw |-> bytes]

Keccak_v256 == <<>>

Keccak_write(k, bytes) ==
  IF bytes = <<>> THEN k
  ELSE IF k # <<>> /\ IsRaw(k[Len(k)])
       THEN [k EXCEPT ![Len(k)] = Raw(k[Len(k)].raw \o bytes)]
       ELSE Append(k, Raw(bytes))

\* <H256 as Hash>::hash and write(h256.as_bytes())
Keccak_write_h256(k, h) == IF IsRaw(h) THEN Keccak_write(k, h.raw) ELSE Append(k, h)

Keccak_finish(k) == [keccak |-> k]

H256_zero == Raw([i \in 1..32 |-> 0])

H256_repeat_byte(b) == Raw([i \in 1..32 |-> b])

\* buf[32 - bytes.len()..].copy_from_slice(&bytes)
CopyRight(buf, bytes) ==
  Raw([i \in 1..32 |-> IF i > 32 - Len(bytes) THEN bytes[i - (32 - Len(bytes))] ELSE buf.raw[i]])

\* padded[..size].copy_from_slice(&buf)
CopyLeft(buf, bytes) ==
  Raw([i \in 1..32 |-> IF i <= Len(bytes) THEN bytes[i] ELSE buf.raw[i]])

IsHexDigit(c) == DigitValue(c) < 16

\* Vec::from_hex: an even number of hex digits
from_hex(s) ==
  IF Len(s) % 2 = 1 \/ \E i \in 1..Len(s) : ~IsHexDigit(s[i]) THEN None
  ELSE Some([i \in 1..(Len(s) \div 2) |-> 16 * DigitValue(s[2 * i - 1]) + DigitValue(s[2 * i])])

\* U256::from_str: optional 0x, at most 64 hex digits, read as hexadecimal
U256_from_str(s) ==
  LET v == StripPrefix(s, <<"0", "x">>)
  IN  IF Len(v) > 64 \/ \E i \in 1..Len(v) : ~IsHexDigit(v[i]) THEN None
      ELSE Some(NibblesToBytes([i \in 1..Len(v) |-> DigitValue(v[i])]))

(***************************************************************************)
(* hasher.rs                                                                *)
(*                                                                          *)
(* st is Hasher::struct_types (key -> [type_, members]); cell holds the     *)
(* type_hash cell of every struct.  Every method returns its result with    *)
(* the cells as the call leaves them.                                       *)
(***************************************************************************)
EIP_712_DOMAIN == <<"E", "I", "P", "7", "1", "2", "D", "o", "m", "a", "i", "n">>

ROk(v, cell) == [ok |-> TRUE, val |-> v, cell |-> cell]

RErr(msg, cell) == [ok |-> FALSE, err |-> msg, cell |-> cell]

RECURSIVE SortNames_descending(_)
\* A sort with the comparison reversed
SortNames_descending(names) ==
  IF names = {} THEN <<>>
  ELSE LET m == CHOOSE n \in names : \A o \in names \ {n} : StrLess(o, n)
       IN  <<m>> \o SortNames_descending(names \ {m})

RECURSIVE SortNames(_)
\* deps[1..].sort() on the names taken from the visited set
SortNames(names) ==
  IF names = {} THEN <<>>
  ELSE LET m == CHOOSE n \in names : \A o \in names \ {n} : StrLess(n, o)
       IN  <<m>> \o SortNames(names \ {m})

\* The names a struct pushes on the stack: its struct-reference members not
\* yet visited, in member order.
PushedNames(members, visited) ==
  LET refs == SelectSeq(members, LAMBDA m : is_struct_ref(m.type_) /\ type_name(m.type_) \notin visited)
  IN  [i \in 1..Len(refs) |-> type_name(refs[i].type_)]

RECURSIVE VisitLoop(_, _, _)
\* A name that is not declared is passed over
VisitLoop_undeclared_skipped(st, visited, stack) ==
  IF stack = <<>> THEN Ok(visited)
  ELSE LET dep_name == stack[Len(stack)]
           rest == SubSeq(stack, 1, Len(stack) - 1)
       IN  IF dep_name \in visited \/ dep_name \notin DOMAIN st THEN VisitLoop(st, visited, rest)
           ELSE VisitLoop(st, visited \cup {dep_name},
                          rest \o PushedNames(st[dep_name].members, visited \cup {dep_name}))

\* while let Some(dep_name) = stack.pop() { ... }
VisitLoop(st, visited, stack) ==
  IF stack = <<>> THEN Ok(visited)
  ELSE LET dep_name == stack[Len(stack)]
           rest == SubSeq(stack, 1, Len(stack) - 1)
       IN  IF dep_name \in visited THEN VisitLoop(st, visited, rest)
           ELSE IF dep_name \notin DOMAIN st THEN Err("invalid struct name")
           ELSE VisitLoop(st, visited \cup {dep_name},
                          rest \o PushedNames(st[dep_name].members, visited \cup {dep_name}))

get_referenced_structs(st, primary_type) ==
  LET Sorted(v) ==
        IF ~v.ok THEN v
        ELSE Ok(<<primary_type>> \o SortNames(v.val \ {primary_type}))
  IN  Sorted(VisitLoop(st, {}, <<primary_type>>))

\* <StructMemberType as Hash>::hash: type reference name, a space, the name
MemberEncoding(member) == reference_name(member.type_) \o <<" ">> \o member.name

RECURSIVE JoinMembers(_)
JoinMembers(members) ==
  IF members = <<>> THEN <<>>
  ELSE IF Len(members) = 1 THEN MemberEncoding(members[1])
  ELSE MemberEncoding(members[1]) \o <<",">> \o JoinMembers(Tail(members))

\* <StructType as Hash>::hash
StructEncoding(struct_type) ==
  type_name(struct_type.type_) \o <<"(">> \o JoinMembers(struct_type.members) \o <<")">>

RECURSIVE ConcatEncodings(_, _)
ConcatEncodings(st, deps) ==
  IF deps = <<>> THEN <<>>
  ELSE StructEncoding(st[deps[1]]) \o ConcatEncodings(st, Tail(deps))

\* The characters type_hash_struct feeds to the hasher
type_hash_struct(st, struct_type) ==
  LET Encoded(deps) == IF deps.ok THEN Ok(ConcatEncodings(st, deps.val)) ELSE deps
  IN  Encoded(get_referenced_structs(st, type_name(struct_type.type_)))

\* The cell set from the struct's own encoding, before the structs it refers
\* to are appended
type_hash_own_encoding_cached(st, cell, key) ==
  IF cell[key].some THEN ROk(cell[key].v, cell)
  ELSE LET own == Keccak_finish(Keccak_write(Keccak_v256, AsBytes(StructEncoding(st[key]))))
           Digest(enc) ==
             IF ~enc.ok THEN RErr(enc.err, cell)
             ELSE ROk(Keccak_finish(Keccak_write(Keccak_v256, AsBytes(enc.val))),
                      [cell EXCEPT ![key] = Some(own)])
       IN  Digest(type_hash_struct(st, st[key]))

type_hash(st, cell, key) ==
  IF cell[key].some THEN ROk(cell[key].v, cell)
  ELSE LET Set(h) == ROk(h, [cell EXCEPT ![key] = Some(h)])
           Digest(enc) ==
             IF ~enc.ok THEN RErr(enc.err, cell)
             ELSE Set(Keccak_finish(Keccak_write(Keccak_v256, AsBytes(enc.val))))
       IN  Digest(type_hash_struct(st, st[key]))

\* The Int arm of hash_value: JSON number or string to BigInt
IntValueOf(value) ==
  IF value.t = "Number"
  THEN LET Pick(u, i) == IF u.some THEN Ok(from_biguint(FALSE, u.v))
                         ELSE IF i.some THEN Ok(i.v)
                         ELSE Err("invalid int")
       IN  Pick(as_u64(value), as_i64(value))
  ELSE IF value.t = "String"
  THEN LET neg == StartsWith(value.s, <<"-">>)
           uhex == StripPrefix(value.s, <<"-">>)
           hex == StripPrefix(uhex, <<"0", "x">>)
           Signed(parsed) ==
             IF parsed.some THEN Ok(from_biguint(neg, parsed.v)) ELSE Err("invalid int")
       IN  Signed(parse_bytes(hex))
  ELSE Err("expected int")

\* The Uint arm of hash_value: JSON number or string to BigUint
UintValueOf(value) ==
  IF value.t = "Number"
  THEN LET Pick(u) == IF u.some THEN Ok(u.v) ELSE Err("invalid uint")
       IN  Pick(as_u64(value))
  ELSE IF value.t = "String"
  THEN LET hex == StripPrefix(value.s, <<"0", "x">>)
           Unsigned(parsed) == IF parsed.some THEN Ok(parsed.v) ELSE Err("invalid uint")
       IN  Unsigned(parse_bytes(hex))
  ELSE Err("expected uint")

\* The width taken as a number of bytes
FitsWidth_bytes(bytes, size) == bytes # <<>> /\ Len(bytes) <= size

\* !bytes.is_empty() && bytes.len() <= size / 8
FitsWidth(bytes, size) == bytes # <<>> /\ Len(bytes) <= size \div 8

\* hash_value for the types that need neither the registry nor recursion
hash_atomic(type, value) ==
  CASE type.t = "Address" ->
         IF value.t = "String"
         THEN LET Pad(enc) == IF enc.some THEN Ok(CopyRight(H256_zero, enc.v))
                              ELSE Err("invalid address")
              IN  Pad(U256_from_str(value.s))
         ELSE Err("expected address")
    [] type.t = "Bool" ->
         IF value.t = "Bool"
         THEN Ok(IF value.b THEN CopyRight(H256_zero, <<1>>) ELSE H256_zero)
         ELSE Err("expected boolean")
    [] type.t = "Bytes" ->
         IF value.t = "String"
         THEN LET Digest(buf) ==
                    IF buf.some THEN Ok(Keccak_finish(Keccak_write(Keccak_v256, buf.v)))
                    ELSE Err("invalid bytes")
              IN  Digest(from_hex(StripPrefix(value.s, <<"0", "x">>)))
         ELSE Err("expected bytes")
    [] type.t = "String" ->
         IF value.t = "String"
         THEN Ok(Keccak_finish(Keccak_write(Keccak_v256, AsBytes(value.s))))
         ELSE Err("expected string")
    [] type.t = "Int" /\ is_valid(type) ->
         LET Fit(neg, bytes) ==
               IF FitsWidth(bytes, type.size)
               THEN Ok(CopyRight(IF neg THEN H256_repeat_byte(255) ELSE H256_zero, bytes))
               ELSE Err("invalid int")
             Encode(int_value) ==
               IF ~int_value.ok THEN int_value
               ELSE Fit(int_value.val.neg, to_signed_bytes_be(int_value.val))
         IN  Encode(IntValueOf(value))
    [] type.t = "Uint" /\ is_valid(type) ->
         LET Fit(bytes) ==
               IF FitsWidth(bytes, type.size)
               THEN Ok(CopyRight(H256_zero, bytes))
               ELSE Err("invalid uint")
             Encode(int_value) ==
               IF ~int_value.ok THEN int_value ELSE Fit(to_bytes_be(int_value.val))
         IN  Encode(UintValueOf(value))
    [] type.t = "FixedBytes" /\ is_valid(type) ->
         IF value.t = "String"
         THEN LET hex == StripPrefix(value.s, <<"0", "x">>)
                  Pad(buf) == IF buf.some THEN Ok(CopyLeft(H256_zero, buf.v))
                              ELSE Err("invalid bytes")
              IN  IF Len(hex) # type.size * 2 THEN Err("invalid bytesN")
                  ELSE Pad(from_hex(hex))
         ELSE Err("expected bytesN")
    [] OTHER -> Err("invalid type")

RECURSIVE hash_value(_, _, _, _)
RECURSIVE hash_struct(_, _, _, _)
RECURSIVE hash_array(_, _, _, _)
RECURSIVE HashMembers(_, _, _, _, _, _)
RECURSIVE HashElements(_, _, _, _, _, _)
RECURSIVE MemberSlot(_, _, _, _)

\* The length of a fixed array left unchecked
hash_value_any_length(st, cell, type, value) ==
  CASE type.t \in {"FixedArray", "Array"} -> hash_array(st, cell, type, value)
    [] type.t = "Struct" -> hash_struct(st, cell, type.name, value)
    [] OTHER ->
         LET Lift(r) == IF r.ok THEN ROk(r.val, cell) ELSE RErr(r.err, cell)
         IN  Lift(hash_atomic(type, value))

hash_value(st, cell, type, value) ==
  CASE type.t \in {"FixedArray", "Array"} ->
         IF type.t = "FixedArray" /\ value.t = "Array" /\ Len(value.a) # type.size
         THEN RErr("expected array of the declared size", cell)
         ELSE hash_array(st, cell, type, value)
    [] type.t = "Struct" -> hash_struct(st, cell, type.name, value)
    [] OTHER ->
         LET Lift(r) == IF r.ok THEN ROk(r.val, cell) ELSE RErr(r.err, cell)
         IN  Lift(hash_atomic(type, value))

\* if let Some(val) = obj.get(member.name) { if !val.is_null() { ... } }: the
\* slot of one member, 32 zero bytes when the key is missing or null
MemberSlot_null_hashed(st, cell, type_, val) ==
  IF val.some THEN hash_value(st, cell, type_, val.v) ELSE ROk(H256_zero, cell)

MemberSlot(st, cell, type_, val) ==
  IF val.some /\ val.v.t # "Null" THEN hash_value(st, cell, type_, val.v)
  ELSE ROk(H256_zero, cell)

\* for member in &type_.members { ... } of hash_struct, from member i on;
\* k is the keccak state.
HashMembers(st, cell, members, obj, i, k) ==
  IF i > Len(members) THEN ROk(k, cell)
  ELSE LET Feed(buf) ==
             IF ~buf.ok THEN buf
             ELSE HashMembers(st, buf.cell, members, obj, i + 1,
                              Keccak_write_h256(k, buf.val))
       IN  IF \E j \in 1..(i - 1) : members[j].name = members[i].name
           THEN RErr("duplicate member", cell)
           ELSE Feed(MemberSlot(st, cell, members[i].type_, ObjGet(obj, members[i].name)))

\* The check turned around: every member has a key
AllKeysVisited_members(obj, visited) == \A name \in visited : name \in Keys(obj)

\* obj.keys().all(|key| visited.contains(key.as_str()))
AllKeysVisited(obj, visited) == \A key \in Keys(obj) : key \in visited

hash_struct(st, cell, name, value) ==
  IF name \notin DOMAIN st THEN RErr("invalid struct name", cell)
  ELSE IF value.t # "Object" THEN RErr("not an object", cell)
  ELSE LET members == st[name].members
           visited == {members[i].name : i \in 1..Len(members)}
           Finish(r) ==
             IF ~r.ok THEN r
             ELSE IF AllKeysVisited(value.o, visited)
                  THEN ROk(Keccak_finish(r.val), r.cell)
                  ELSE RErr("not an object", r.cell)
           Encode(th) ==
             IF ~th.ok THEN th
             ELSE Finish(HashMembers(st, th.cell, members, value.o, 1,
                                     Keccak_write_h256(Keccak_v256, th.val)))
       IN  Encode(type_hash(st, cell, name))

\* for val in arr { ... } of hash_array, from element i on
HashElements(st, cell, reference_type, arr, i, k) ==
  IF i > Len(arr) THEN ROk(k, cell)
  ELSE LET Feed(buf) ==
             IF ~buf.ok THEN buf
             ELSE HashElements(st, buf.cell, reference_type, arr, i + 1,
                               Keccak_write_h256(k, buf.val))
       IN  Feed(hash_value(st, cell, reference_type, arr[i]))

hash_array(st, cell, type, value) ==
  LET Finish(r) == IF r.ok THEN ROk(Keccak_finish(r.val), r.cell) ELSE r
      Elements(reference_type) ==
        IF ~reference_type.ok THEN RErr(reference_type.err, cell)
        ELSE IF value.t # "Array" THEN RErr("expected array", cell)
        ELSE Finish(HashElements(st, cell, reference_type.val, value.a, 1, Keccak_v256))
  IN  Elements(remove_reference(type))

\* The two prefix bytes left out
hash_without_prefix(st, cell, separator, td) ==
  LET Envelope(hs) ==
        IF ~hs.ok THEN hs
        ELSE ROk(Keccak_finish(Keccak_write_h256(Keccak_write_h256(
                   Keccak_v256, separator), hs.val)), hs.cell)
  IN  Envelope(hash_struct(st, cell, td.primary_type, td.message))

\* Hasher::hash
hash(st, cell, separator, td) ==
  LET Envelope(hs) ==
        IF ~hs.ok THEN hs
        ELSE ROk(Keccak_finish(Keccak_write_h256(Keccak_write_h256(
                   Keccak_write(Keccak_v256, <<25, 1>>), separator), hs.val)), hs.cell)
  IN  Envelope(hash_struct(st, cell, td.primary_type, td.message))

(***************************************************************************)
(* Construction: StructType::try_from_named_struct, Hasher::try_from        *)
(***************************************************************************)
EmptyMap == [n \in {} |-> n]

MapInsert(map, key, v) == [n \in DOMAIN map \cup {key} |-> IF n = key THEN v ELSE map[n]]

\* members is the Vec<MemberType> of the document: [name, type] strings
try_from_named_struct(name, members) ==
  LET Duplicate(i) == \E j \in 1..(i - 1) : members[j].name = members[i].name
      Build(type_, parsed) ==
        IF ~type_.ok THEN type_
        ELSE IF \E i \in 1..Len(members) : Duplicate(i) \/ ~parsed[i].ok
        THEN \* the first member at which the loop returns
             LET i == CHOOSE b \in 1..Len(members) :
                        /\ Duplicate(b) \/ ~parsed[b].ok
                        /\ \A o \in 1..(b - 1) : ~Duplicate(o) /\ parsed[o].ok
             IN  IF Duplicate(i) THEN Err("duplicate member") ELSE Err("invalid type name")
        ELSE Ok([type_ |-> type_.val,
                 members |-> [i \in 1..Len(members) |->
                                [name |-> members[i].name, type_ |-> parsed[i].val]]])
  IN  Build(try_from_name(name),
            [i \in 1..Len(members) |-> try_from_name(members[i].type)])

RECURSIVE DefineStructs(_, _, _, _)
\* The loop without the test for a built-in type name
DefineStructs_builtin_allowed(types, order, i, st) ==
  IF i > Len(order) THEN Ok(st)
  ELSE LET name == order[i]
           Insert(def) ==
             IF ~def.ok THEN def
             ELSE DefineStructs(types, order, i + 1, MapInsert(st, name, def.val))
       IN  IF name \in DOMAIN st THEN Err("type is already defined")
           ELSE Insert(try_from_named_struct(name, types[name]))

\* for (name, members) in &typed_data.types, in the map's iteration order
DefineStructs(types, order, i, st) ==
  IF i > Len(order) THEN Ok(st)
  ELSE LET name == order[i]
           Insert(def) ==
             IF ~def.ok THEN def
             ELSE DefineStructs(types, order, i + 1, MapInsert(st, name, def.val))
       IN  IF name \in DOMAIN st \/ is_primitive_type(name) THEN Err("type is already defined")
           ELSE Insert(try_from_named_struct(name, types[name]))

\* Hasher::try_from; order is the iteration order of the HashMap of types
try_from(td, order) ==
  IF EIP_712_DOMAIN \notin DOMAIN td.types THEN Err("missing struct type EIP712Domain")
  ELSE LET Build(st, sep) ==
             IF ~sep.ok THEN Err(sep.err)
             ELSE Ok([struct_types |-> st, type_hash |-> sep.cell,
                      domain_separator |-> sep.val])
           Separate(defs) ==
             IF ~defs.ok THEN defs
             ELSE Build(defs.val, hash_struct(defs.val, [n \in DOMAIN defs.val |-> None],
                                              EIP_712_DOMAIN, td.domain))
       IN  Separate(DefineStructs(td.types, order, 1, EmptyMap))

\* The iteration orders a HashMap with these keys can have
RECURSIVE Orders(_)
Orders(keys) ==
  IF keys = {} THEN {<<>>}
  ELSE UNION {{<<k>> \o o : o \in Orders(keys \ {k})} : k \in keys}

\* One fixed order, for building a Hasher once
AnOrder(keys) == SortNames(keys)

(***************************************************************************)
(* Operations on a Hasher                                                   *)
(***************************************************************************)
NoRequest == [unused |-> TRUE]

NoCall == [op |-> "none"]

NoSigning == [op |-> "none"]

Unbuilt ==
  /\ built = "no"
  /\ struct_types = EmptyMap
  /\ type_hash_cell = EmptyMap
  /\ domain_separator = H256_zero

\* The state right after Hasher::try_from(&typed_data) succeeded
Constructed(td) ==
  \E h \in {try_from(td, AnOrder(DOMAIN td.types))} :
     /\ h.ok
     /\ built = "yes"
     /\ struct_types = h.val.struct_types
     /\ type_hash_cell = h.val.type_hash
     /\ domain_separator = h.val.domain_separator

Strip(r) == IF r.ok THEN Ok(r.val) ELSE Err(r.err)

TryFrom(order) ==
  /\ built = "no"
  /\ \E h \in {try_from(typed_data, order)} :
         /\ call' = [op |-> "try_from", order |-> order]
         /\ IF h.ok
            THEN /\ built' = "yes"
                 /\ struct_types' = h.val.struct_types
                 /\ type_hash_cell' = h.val.type_hash
                 /\ domain_separator' = h.val.domain_separator
                 /\ ret' = Ok("Hasher")
            ELSE /\ built' = "failed"
                 /\ ret' = Err(h.err)
                 /\ UNCHANGED <<struct_types, type_hash_cell, domain_separator>>
  /\ UNCHANGED <<typed_data, request, chain_id, signing>>

GetReferencedStructs(primary_type) ==
  /\ built = "yes"
  /\ call' = [op |-> "get_referenced_structs", primary_type |-> primary_type]
  /\ ret' = get_referenced_structs(struct_types, primary_type)
  /\ UNCHANGED <<typed_data, built, struct_types, type_hash_cell, domain_separator,
                 request, chain_id, signing>>

TypeHash(key) ==
  /\ built = "yes"
  /\ key \in DOMAIN struct_types
  /\ \E r \in {type_hash(struct_types, type_hash_cell, key)} :
         /\ call' = [op |-> "type_hash", key |-> key]
         /\ ret' = Strip(r)
         /\ type_hash_cell' = r.cell
  /\ UNCHANGED <<typed_data, built, struct_types, domain_separator, request, chain_id, signing>>

HashValue(type, value) ==
  /\ built = "yes"
  /\ \E r \in {hash_value(struct_types, type_hash_cell, type, value)} :
         /\ call' = [op |-> "hash_value", type |-> type, value |-> value]
         /\ ret' = Strip(r)
         /\ type_hash_cell' = r.cell
  /\ UNCHANGED <<typed_data, built, struct_types, domain_separator, request, chain_id, signing>>

HashArray(type, value) ==
  /\ built = "yes"
  /\ \E r \in {hash_array(struct_types, type_hash_cell, type, value)} :
         /\ call' = [op |-> "hash_array", type |-> type, value |-> value]
         /\ ret' = Strip(r)
         /\ type_hash_cell' = r.cell
  /\ UNCHANGED <<typed_data, built, struct_types, domain_separator, request, chain_id, signing>>

HashStruct(name, value) ==
  /\ built = "yes"
  /\ \E r \in {hash_struct(struct_types, type_hash_cell, name, value)} :
         /\ call' = [op |-> "hash_struct", name |-> name, value |-> value]
         /\ ret' = Strip(r)
         /\ type_hash_cell' = r.cell
  /\ UNCHANGED <<typed_data, built, struct_types, domain_separator, request, chain_id, signing>>

\* Hasher::hash(&typed_data)
Hash(td) ==
  /\ built = "yes"
  /\ \E r \in {hash(struct_types, type_hash_cell, domain_separator, td)} :
         /\ call' = [op |-> "hash", typed_data |-> td]
         /\ ret' = Strip(r)
         /\ type_hash_cell' = r.cell
  /\ UNCHANGED <<typed_data, built, struct_types, domain_separator, request, chain_id, signing>>

(***************************************************************************)
(* SpecResolver: get_referenced_structs on the registries of small          *)
(* documents                                                                *)
(***************************************************************************)
\* Members of the first struct, and of the other two
MaxMembers == 2

MaxLeafMembers == 1

\* Struct names whose byte order differs from their order by length and from
\* their case-insensitive order.
N1 == <<"A", "b", "c">>

N2 == <<"B", "a">>

N3 == <<"a", "b">>

\* A name no document declares
Undeclared == <<"Z", "z">>

s_uint8 == <<"u", "i", "n", "t", "8">>

DeclaredNames == <<N1, N2, N3>>

Targets == {N1, N2, N3, Undeclared}

\* The third struct may also hold arrays of a primitive type
LeafTargets == Targets \cup {s_uint8}

\* Sequences of distinct targets of length at most n
RECURSIVE DistinctSeqs(_, _)
DistinctSeqs(set, n) ==
  IF n = 0 THEN {<<>>}
  ELSE LET shorter == DistinctSeqs(set, n - 1)
       IN  shorter \cup {Append(q, x) : q \in {r \in shorter : Len(r) = n - 1}, x \in set}

DistinctTargetSeqs(set, n) == {q \in DistinctSeqs(set, n) :
                                 \A i, j \in 1..Len(q) : i # j => q[i] # q[j]}

\* The member type written at position i of struct number k: the element
\* name alone, as a dynamic array or as a fixed array
TypeString(target, i, k) ==
  CASE (i + k) % 3 = 0 -> target
    [] (i + k) % 3 = 1 -> target \o <<"[", "]">>
    [] OTHER -> target \o <<"[", "2", "]">>

MemberName(i) == <<"m">> \o Format(i)

MembersOf(targets, k) ==
  [i \in 1..Len(targets) |-> [name |-> MemberName(i), type |-> TypeString(targets[i], i, k)]]

EmptyObject == JObject(<<>>)

ResolverDocs ==
  {[types |-> [n \in {EIP_712_DOMAIN, N1, N2, N3} |->
                 CASE n = N1 -> MembersOf(t1, 1)
                   [] n = N2 -> MembersOf(t2, 2)
                   [] n = N3 -> MembersOf(t3, 3)
                   [] OTHER -> <<>>],
    primary_type |-> N1, domain |-> EmptyObject, message |-> EmptyObject] :
     t1 \in DistinctTargetSeqs(Targets, MaxMembers),
     t2 \in DistinctTargetSeqs(Targets, MaxLeafMembers),
     t3 \in DistinctTargetSeqs(LeafTargets, MaxLeafMembers)}

InitResolver ==
  /\ typed_data \in ResolverDocs
  /\ Constructed(typed_data)
  /\ call = NoCall
  /\ ret = Ok("Hasher")
  /\ request = NoRequest
  /\ chain_id = 0
  /\ signing = NoSigning

NextResolver ==
  \E primary_type \in DOMAIN struct_types \cup {Undeclared} : GetReferencedStructs(primary_type)

SpecResolver == InitResolver /\ [][NextResolver]_vars

\* The names a declared struct refers to: members of struct type and arrays
\* whose element type is not primitive
RefsOf(st, n) ==
  {type_name(st[n].members[i].type_) : i \in {j \in 1..Len(st[n].members) :
      LET ty == st[n].members[j].type_
      IN  ty.t = "Struct" \/ (ty.t \in {"Array", "FixedArray"} /\ ty.name \notin PrimitiveNames)}}

RECURSIVE Closure(_, _)
Closure(st, S) ==
  LET S2 == S \cup UNION {RefsOf(st, n) : n \in S \cap DOMAIN st}
  IN  IF S2 = S THEN S ELSE Closure(st, S2)

\* Everything reachable from the primary type through struct references
Reachable(st, primary_type) == Closure(st, {primary_type})

IsResolverCall == call.op = "get_referenced_structs" /\ call.primary_type \in DOMAIN struct_types

ResolverListRight ==
  LET p == call.primary_type
      others == Reachable(struct_types, p) \ {p}
      deps == ret.val
  IN  /\ ret.ok
      /\ deps[1] = p
      /\ Len(deps) = 1 + Cardinality(others)
      /\ {deps[i] : i \in 2..Len(deps)} = others
      /\ \A i, j \in 2..Len(deps) : i < j => StrLess(deps[i], deps[j])

\* C1 as stated: for every registry and every declared primary struct name,
\* get_referenced_structs returns the list [primary] ++ the other reachable
\* structs, each once, in ascending byte order of name.
C1_AnyRegistry == IsResolverCall => ResolverListRight

\* C1 amended: when every name reachable from the primary is declared,
\* get_referenced_structs returns the primary first and then exactly the other
\* reachable structs, each once, in ascending byte order of name, also when the
\* primary lies on a cycle; when some reachable name is not declared it returns
\* an error.
C1_ResolverOrder ==
  IsResolverCall =>
    IF Reachable(struct_types, call.primary_type) \subseteq DOMAIN struct_types
    THEN ResolverListRight
    ELSE ~ret.ok

\* Witness: the primary is reachable from itself through another struct and
\* two further structs are listed after it.
C1_Witness ==
  /\ IsResolverCall
  /\ ret.ok
  /\ Len(ret.val) = 3
  /\ \E n \in DOMAIN struct_types \ {call.primary_type} :
        /\ n \in RefsOf(struct_types, call.primary_type)
        /\ call.primary_type \in RefsOf(struct_types, n)

(***************************************************************************)
(* SpecStruct: hash_struct, hash_value and hash on small messages           *)
(***************************************************************************)
\* Longest JSON array in a message
MaxElements == 1

\* A key no struct declares
ExtraKey == <<"x", "x">>

One == JNumber("PosInt", <<1>>)

\* Values of the struct Ba: well formed, and with a key Ba does not declare
BaOk == JObject(<< <<MemberName(1), One>> >>)

BaExtra == JObject(<< <<MemberName(1), One>>, <<ExtraKey, One>> >>)

MemberValues ==
  {JNull, One, JString(<<"a", "b">>), BaOk, BaExtra}
  \cup {JArray(a) : a \in DistinctSeqs({BaOk, BaExtra}, MaxElements)}

\* A key left out, or present with one of the values
EntryOptions(key, values) == {<<>>} \cup {<< <<key, v>> >> : v \in values}

Reverse(q) == [i \in 1..Len(q) |-> q[Len(q) + 1 - i]]

\* Objects over the keys m1, m2 and xx
MessageObjects ==
  {JObject(e1 \o e2 \o e3) : e1 \in EntryOptions(MemberName(1), MemberValues),
                             e2 \in EntryOptions(MemberName(2), MemberValues),
                             e3 \in EntryOptions(ExtraKey, {JNull, One})}

\* Abc has two members, Ba one member of type uint8
StructDocs ==
  {[types |-> [n \in {EIP_712_DOMAIN, N1, N2} |->
                 CASE n = N1 -> << [name |-> MemberName(1), type |-> t1],
                                   [name |-> MemberName(2), type |-> t2] >>
                   [] n = N2 -> << [name |-> MemberName(1), type |-> s_uint8] >>
                   [] OTHER -> <<>>],
    primary_type |-> N1, domain |-> EmptyObject, message |-> m] :
     t1 \in {s_uint8, N2}, t2 \in {N2 \o <<"[", "]">>, s_string}, m \in MessageObjects}

InitStruct ==
  /\ typed_data \in StructDocs
  /\ Constructed(typed_data)
  /\ call = NoCall
  /\ ret = Ok("Hasher")
  /\ request = NoRequest
  /\ chain_id = 0
  /\ signing = NoSigning

NextStruct ==
  \/ Hash(typed_data)
  \/ HashStruct(typed_data.primary_type, typed_data.message)
  \/ \E i \in 1..Len(typed_data.message.o) : HashStruct(N2, typed_data.message.o[i][2])
  \/ \E i \in 1..Len(typed_data.message.o), j \in 1..Len(struct_types[N1].members) :
        HashValue(struct_types[N1].members[j].type_, typed_data.message.o[i][2])

SpecStruct == InitStruct /\ [][NextStruct]_vars

MemberNames(struct_type) == {struct_type.members[i].name : i \in 1..Len(struct_type.members)}

RECURSIVE ExtraKeyInside(_, _, _)
\* Some object that is hashed as a struct when value is hashed as type holds
\* a key its struct does not declare.
ExtraKeyInside(st, type, value) ==
  CASE type.t = "Struct" /\ value.t = "Object" /\ type.name \in DOMAIN st ->
         \/ \E key \in Keys(value.o) : key \notin MemberNames(st[type.name])
         \/ \E i \in 1..Len(st[type.name].members), j \in 1..Len(value.o) :
               /\ value.o[j][1] = st[type.name].members[i].name
               /\ ExtraKeyInside(st, st[type.name].members[i].type_, value.o[j][2])
    [] type.t \in {"Array", "FixedArray"} /\ value.t = "Array" /\ type.name \in DOMAIN st ->
         \E i \in 1..Len(value.a) : ExtraKeyInside(st, Type_Struct(type.name), value.a[i])
    [] OTHER -> FALSE

NoDigest == ~ret.ok /\ "val" \notin DOMAIN ret

\* C2: hash_struct returns an error and no digest whenever the object holds a
\* key that is not a declared member, whatever the declared members' values
\* are; an extra key in a nested struct or in a struct inside an array makes
\* hash_struct, hash_value and Hasher::hash fail as well.
C2_ExtraKeyFails ==
  /\ call.op = "hash_struct" /\ ExtraKeyInside(struct_types, Type_Struct(call.name), call.value)
       => NoDigest
  /\ call.op = "hash_value" /\ ExtraKeyInside(struct_types, call.type, call.value)
       => NoDigest
  /\ call.op = "hash"
       /\ ExtraKeyInside(struct_types, Type_Struct(call.typed_data.primary_type),
                         call.typed_data.message)
       => NoDigest

\* Witness: Hasher::hash failed on a message whose own keys are all declared
\* and whose extra key sits in a struct inside an array member.
C2_Witness ==
  /\ call.op = "hash"
  /\ ~ret.ok
  /\ Keys(call.typed_data.message.o) \subseteq MemberNames(struct_types[N1])
  /\ \E j \in 1..Len(call.typed_data.message.o) :
        /\ call.typed_data.message.o[j][2].t = "Array"
        /\ ExtraKeyInside(struct_types, Type_Struct(N1), call.typed_data.message)

\* The value stored under a key, and whether the key holds a value other
\* than null
ValueAt(obj, key) == obj[CHOOSE i \in 1..Len(obj) : obj[i][1] = key][2]

Present(obj, key) == \E i \in 1..Len(obj) : obj[i][1] = key /\ obj[i][2] # JNull

RECURSIVE StreamLen(_)
\* Number of bytes written to a keccak state
StreamLen(k) ==
  IF k = <<>> THEN 0
  ELSE (IF IsRaw(k[1]) THEN Len(k[1].raw) ELSE 32) + StreamLen(Tail(k))

RECURSIVE WriteAll(_, _)
WriteAll(k, hs) == IF hs = <<>> THEN k ELSE WriteAll(Keccak_write_h256(k, hs[1]), Tail(hs))

IsStructCall ==
  call.op = "hash_struct" /\ call.name \in DOMAIN struct_types /\ call.value.t = "Object"

\* The result of hashing the value a member has in the object of the call
MemberResult(member) ==
  hash_value(struct_types, type_hash_cell, member.type_, ValueAt(call.value.o, member.name))

\* C3: hash_struct hashes the type hash followed by exactly one 32-byte slot
\* per declared member, in declaration order and whatever the order of the
\* keys of the object is; the slot of a member whose key is missing or whose
\* value is null is 32 zero bytes, and neither case makes the call fail.
C3_OneSlotPerMember ==
  IsStructCall =>
    LET members == struct_types[call.name].members
        obj == call.value.o
        slots == [i \in 1..Len(members) |->
                    IF Present(obj, members[i].name) THEN MemberResult(members[i]).val
                    ELSE Raw([n \in 1..32 |-> 0])]
    IN  /\ ret.ok =>
             /\ ret.val = [keccak |-> WriteAll(<<type_hash_cell[call.name].v>>, slots)]
             /\ StreamLen(ret.val.keccak) = 32 * (1 + Len(members))
        /\ ret = Strip(hash_struct(struct_types, type_hash_cell, call.name,
                                   JObject(Reverse(obj))))
        /\ (/\ Keys(obj) \subseteq MemberNames(struct_types[call.name])
            /\ \A i \in 1..Len(members) :
                  Present(obj, members[i].name) => MemberResult(members[i]).ok)
           => ret.ok

\* Witness: a successful hash_struct of an object with two keys, the first
\* member null and the second hashed from its value.
C3_Witness ==
  /\ IsStructCall
  /\ ret.ok
  /\ Len(call.value.o) = 2
  /\ Len(struct_types[call.name].members) = 2
  /\ ~Present(call.value.o, struct_types[call.name].members[1].name)
  /\ Present(call.value.o, struct_types[call.name].members[2].name)

(***************************************************************************)
(* SpecValue: hash_value on integers.  A document declares the struct Abc   *)
(* with one member of an integer type and carries one value for it.         *)
(***************************************************************************)
\* Widths of the registered uintN and intN types that the documents use:
\* those is_valid names, and three more multiples of 8
Widths == {8, 16, 24, 32, 40, 64, 128, 160, 256}

IntegerTypeNames == {s_uint \o Format(w) : w \in Widths} \cup {s_int \o Format(w) : w \in Widths}

\* Lengths in bytes of the magnitudes: each width and one byte more
MagnitudeLengths == {w \div 8 : w \in Widths} \cup {(w \div 8) + 1 : w \in Widths}

\* Magnitudes around the powers of two: a first byte 01, 7f, 80 or ff, then
\* zeros, ones, or zeros and a final 01
Magnitudes ==
  {<<>>} \cup
  {[i \in 1..n |-> IF i = 1 THEN head
                   ELSE CASE fill = "zeros" -> 0
                          [] fill = "ones" -> 255
                          [] OTHER -> IF i = n THEN 1 ELSE 0] :
     n \in MagnitudeLengths, head \in {1, 127, 128, 255}, fill \in {"zeros", "ones", "one"}}

HexDigits == <<"0", "1", "2", "3", "4", "5", "6", "7", "8", "9", "a", "b", "c", "d", "e", "f">>

\* Two hexadecimal digits per byte; zero is written 0
HexOf(bytes) ==
  IF bytes = <<>> THEN <<"0">>
  ELSE [i \in 1..(2 * Len(bytes)) |->
          IF i % 2 = 1 THEN HexDigits[(bytes[(i + 1) \div 2] \div 16) + 1]
          ELSE HexDigits[(bytes[i \div 2] % 16) + 1]]

\* What serde_json makes of an integer literal: u64, i64, or a float
NumberOf(neg, mag) ==
  IF ~neg /\ Len(mag) <= 8 THEN JNumber("PosInt", mag)
  ELSE IF neg /\ (Len(mag) < 8 \/ (Len(mag) = 8 /\ (mag[1] < 128
                    \/ mag = [i \in 1..8 |-> IF i = 1 THEN 128 ELSE 0])))
       THEN JNumber("NegInt", mag)
       ELSE JNumber("Float", mag)

Sign(neg) == IF neg THEN <<"-">> ELSE <<>>

DecimalStrings ==
  {<<"9">>, <<"1", "0">>, <<"9", "9">>, <<"1", "2", "8">>, <<"2", "5", "0">>,
   <<"2", "5", "6">>, <<"3", "0", "0">>, <<"-", "1", "0">>, <<"-", "1", "2", "8">>,
   <<"-", "1", "2", "9">>}

IntegerValues ==
  {NumberOf(neg, mag) : neg \in {FALSE, TRUE}, mag \in Magnitudes \ {<<>>}}
  \cup {JNumber("PosInt", <<>>)}
  \cup {JString(Sign(neg) \o <<"0", "x">> \o HexOf(mag)) : neg \in BOOLEAN, mag \in Magnitudes}
  \cup {JString(d) : d \in DecimalStrings}
  \cup {JBool(TRUE), JString(<<>>), JString(<<"-">>)}

ValueDocs ==
  {[types |-> [n \in {EIP_712_DOMAIN, N1} |->
                 IF n = N1 THEN << [name |-> MemberName(1), type |-> t] >> ELSE <<>>],
    primary_type |-> N1, domain |-> EmptyObject,
    message |-> JObject(<< <<MemberName(1), v>> >>)] :
     t \in IntegerTypeNames, v \in IntegerValues}

InitValue ==
  /\ typed_data \in ValueDocs
  /\ Constructed(typed_data)
  /\ call = NoCall
  /\ ret = Ok("Hasher")
  /\ request = NoRequest
  /\ chain_id = 0
  /\ signing = NoSigning

NextValue ==
  \/ HashValue(struct_types[N1].members[1].type_, typed_data.message.o[1][2])
  \/ HashStruct(typed_data.primary_type, typed_data.message)

SpecValue == InitValue /\ [][NextValue]_vars

UpperHexDigits ==
  <<"0", "1", "2", "3", "4", "5", "6", "7", "8", "9", "A", "B", "C", "D", "E", "F">>

IsHex(c) == \E i \in 1..16 : HexDigits[i] = c

HexValue(c) == (CHOOSE i \in 1..16 : HexDigits[i] = c) - 1

RECURSIVE MagOfNat(_)
\* The big-endian bytes of a natural number
MagOfNat(n) == IF n = 0 THEN <<>> ELSE MagOfNat(n \div 256) \o <<n % 256>>

BytesOfHex(ds) ==
  LET e == IF Len(ds) % 2 = 1 THEN <<"0">> \o ds ELSE ds
  IN  StripZeros([i \in 1..(Len(e) \div 2) |-> 16 * HexValue(e[2 * i - 1]) + HexValue(e[2 * i])])

\* The integer a JSON value stands for, as sign and magnitude: a JSON integer
\* (radix 0), an optional '-' and 0x with hexadecimal digits (radix 16), or an
\* optional '-' and decimal digits (radix 10)
Meaning(value) ==
  IF value.t = "Number"
  THEN IF value.kind = "Float" THEN None
       ELSE Some([neg |-> value.kind = "NegInt", mag |-> value.mag, radix |-> 0])
  ELSE IF value.t = "String"
  THEN LET neg == StartsWith(value.s, <<"-">>)
           body == IF neg THEN Tail(value.s) ELSE value.s
       IN  IF Len(body) > 2 /\ SubSeq(body, 1, 2) = <<"0", "x">>
              /\ \A i \in 3..Len(body) : IsHex(body[i])
           THEN Some([neg |-> neg, mag |-> BytesOfHex(SubSeq(body, 3, Len(body))),
                      radix |-> 16])
           ELSE IF body # <<>> /\ \A i \in 1..Len(body) : IsDigit(body[i])
           THEN Some([neg |-> neg, mag |-> MagOfNat(DecValue(body)), radix |-> 10])
           ELSE None
  ELSE None

Negative(v) == v.neg /\ v.mag # <<>>

\* Length of the shortest big-endian representation: unsigned for Uint,
\* two's complement for Int
MinimalLen(type, v) ==
  IF type.t = "Uint" \/ v.mag = <<>> THEN Len(v.mag)
  ELSE IF Negative(v)
       THEN Len(v.mag) + (IF v.mag[1] > 128
                             \/ (v.mag[1] = 128 /\ \E i \in 2..Len(v.mag) : v.mag[i] # 0)
                          THEN 1 ELSE 0)
       ELSE Len(v.mag) + (IF v.mag[1] >= 128 THEN 1 ELSE 0)

InRange(type, v) ==
  /\ ~(type.t = "Uint" /\ Negative(v))
  /\ MinimalLen(type, v) <= type.size \div 8

\* Written as a JSON integer or with 0x, and with '-' for a signed type only
PlainlyWritten(type, v) == v.radix # 10 /\ (type.t = "Int" \/ ~v.neg)

IsIntegerCall ==
  /\ call.op = "hash_value"
  /\ call.type.t \in {"Uint", "Int"}
  /\ Meaning(call.value).some

\* The integer of the member value of a hash_struct call on the message
IsIntegerMemberCall ==
  /\ call.op = "hash_struct"
  /\ struct_types[N1].members[1].type_.t \in {"Uint", "Int"}
  /\ Meaning(call.value.o[1][2]).some

\* C4: for every Uint(w) and Int(w), hash_value fails and returns no slot for
\* an integer whose shortest representation (unsigned for Uint, two's
\* complement for Int) is longer than w/8 bytes, and for a negative integer
\* given for a Uint(w) as a JSON number or as a string with '-'; hash_struct
\* of a struct with such a member fails as well.
C4_OutOfWidthFails ==
  /\ IsIntegerCall /\ ~InRange(call.type, Meaning(call.value).v) => NoDigest
  /\ IsIntegerMemberCall
       /\ ~InRange(struct_types[N1].members[1].type_, Meaning(call.value.o[1][2]).v)
       => NoDigest

\* Witness: hash_value failed for int8 on a negative integer that needs two
\* bytes.
C4_Witness ==
  /\ IsIntegerCall
  /\ call.type.t = "Int" /\ call.type.size = 8
  /\ Negative(Meaning(call.value).v)
  /\ MinimalLen(call.type, Meaning(call.value).v) = 2
  /\ ~ret.ok

RECURSIVE SumsToZero(_, _, _, _)
\* a + b = 2^256 for two 32-byte numbers, added from byte i leftwards
SumsToZero(a, b, i, carry) ==
  IF i = 0 THEN carry = 1
  ELSE (a[i] + b[i] + carry) % 256 = 0
       /\ SumsToZero(a, b, i - 1, (a[i] + b[i] + carry) \div 256)

PadLeft(mag) == [i \in 1..32 |-> IF i > 32 - Len(mag) THEN mag[i - (32 - Len(mag))] ELSE 0]

\* The slot is the 256-bit two's complement of v with the filler bytes of
\* a w-bit value
SlotHolds(slot, v, w) ==
  /\ IsRaw(slot)
  /\ Len(slot.raw) = 32
  /\ \A i \in 1..(32 - w \div 8) : slot.raw[i] = IF Negative(v) THEN 255 ELSE 0
  /\ IF Negative(v) THEN SumsToZero(slot.raw, PadLeft(v.mag), 32, 0)
     ELSE slot.raw = PadLeft(v.mag)

\* C5: for w in {8, 16, 32, 64, 128, 256} and every integer v in the range of
\* Uint(w) or Int(w), given as a JSON integer or as a 0x string ('-' before
\* it for Int only), hash_value succeeds and the slot is the 256-bit big-endian two's complement of v,
\* filled with ff on the left when v < 0 and with 00 otherwise.
C5_TwosComplement ==
  IsIntegerCall /\ call.type.size \in {8, 16, 32, 64, 128, 256}
    /\ PlainlyWritten(call.type, Meaning(call.value).v)
    /\ InRange(call.type, Meaning(call.value).v)
    => ret.ok /\ SlotHolds(ret.val, Meaning(call.value).v, call.type.size)

\* Witness: int256 encoded the least value of its range, -2^255.
C5_Witness ==
  /\ IsIntegerCall
  /\ call.type.t = "Int" /\ call.type.size = 256
  /\ Meaning(call.value).v = [neg |-> TRUE, mag |-> [i \in 1..32 |-> IF i = 1 THEN 128 ELSE 0],
                              radix |-> 16]
  /\ ret.ok
  /\ ret.val.raw = [i \in 1..32 |-> IF i = 1 THEN 128 ELSE 0]

\* C6: every multiple of 8 from 8 to 256 is a valid width: the name parses to
\* Uint(w) or Int(w), is_valid holds, and hash_value encodes every value in
\* range.
C6_AllWidths ==
  IsIntegerCall /\ call.type.size % 8 = 0 /\ call.type.size \in 8..256
    /\ PlainlyWritten(call.type, Meaning(call.value).v)
    /\ InRange(call.type, Meaning(call.value).v)
    => /\ try_from_name(call.type.name) = Ok(call.type)
       /\ is_valid(call.type)
       /\ ret.ok /\ SlotHolds(ret.val, Meaning(call.value).v, call.type.size)

\* C7: a string of decimal digits without 0x, after an optional '-' for a
\* signed type, is encoded as the JSON number with that decimal value.
C7_DecimalStrings ==
  IsIntegerCall /\ is_valid(call.type) /\ Meaning(call.value).v.radix = 10
    /\ (call.type.t = "Int" \/ ~Meaning(call.value).v.neg)
    => LET v == Meaning(call.value).v
           number == Strip(hash_value(struct_types, type_hash_cell, call.type,
                                      NumberOf(v.neg, v.mag)))
       IN  ret = number

(***************************************************************************)
(* SpecHasher: Hasher::try_from on well-formed and ill-formed documents,    *)
(* then any sequence of calls on the Hasher it built                        *)
(***************************************************************************)
\* Member type names that do not parse: one letter is no identifier, and a
\* bracket is not closed
Unparseable == {<<"a">>, s_uint8 \o <<"[">>}

Member(i, type) == [name |-> MemberName(i), type |-> type]

\* Declarations of EIP712Domain, of Abc, and of the third type
DomainMembers == {<<>>, <<Member(1, s_string)>>}

AbcMembers ==
  {<<Member(1, s_uint8), Member(2, N2 \o <<"[", "]">>)>>,
   <<Member(1, s_uint8), Member(1, s_string)>>,
   <<Member(1, <<"a">>)>>}

ThirdMembers == {<<Member(1, s_uint8)>>, <<Member(1, s_uint8 \o <<"[">>)>>}

\* The names a document declares: all three, EIP712Domain left out, or a
\* built-in name in place of Ba
KeySets == {{EIP_712_DOMAIN, N1, N2}, {N1, N2}, {EIP_712_DOMAIN, N1, s_uint8}}

Domains ==
  {EmptyObject, JObject(<< <<MemberName(1), JString(<<"a", "b">>)>> >>),
   JObject(<< <<ExtraKey, One>> >>)}

Messages ==
  {JObject(<< <<MemberName(1), One>>, <<MemberName(2), JArray(<<BaOk>>)>> >>),
   JObject(<< <<MemberName(1), One>>, <<ExtraKey, One>> >>),
   JObject(<< <<MemberName(1), JString(<<"z", "z">>)>> >>)}

HasherDocs ==
  {[types |-> [n \in keys |-> CASE n = EIP_712_DOMAIN -> d
                                [] n = N1 -> a
                                [] OTHER -> t],
    primary_type |-> N1, domain |-> domain, message |-> message] :
     keys \in KeySets, d \in DomainMembers, a \in AbcMembers, t \in ThirdMembers,
     domain \in Domains, message \in Messages}

InitHasher ==
  /\ typed_data \in HasherDocs
  /\ Unbuilt
  /\ call = NoCall
  /\ ret = Ok("none")
  /\ request = NoRequest
  /\ chain_id = 0
  /\ signing = NoSigning

MemberTypes(st) == UNION {{st[n].members[i].type_ : i \in 1..Len(st[n].members)} : n \in DOMAIN st}

EntryValues(obj) == {obj[i][2] : i \in 1..Len(obj)}

NextHasher ==
  \/ \E order \in Orders(DOMAIN typed_data.types) : TryFrom(order)
  \/ Hash(typed_data)
  \/ \E name \in DOMAIN struct_types, value \in {typed_data.message, typed_data.domain} :
        HashStruct(name, value)
  \/ \E key \in DOMAIN struct_types : TypeHash(key)
  \/ \E type \in MemberTypes(struct_types), value \in EntryValues(typed_data.message.o) :
        HashValue(type, value)
  \/ \E type \in {t \in MemberTypes(struct_types) : is_array(t)},
        value \in EntryValues(typed_data.message.o) : HashArray(type, value)

SpecHasher == InitHasher /\ [][NextHasher]_vars

\* C8: Hasher::hash returns keccak256(0x19 0x01 || domain_separator ||
\* hash_struct(primaryType, message)) and fails when that hash_struct fails;
\* domain_separator is hash_struct(EIP712Domain, domain) as try_from computed
\* it, and no call on the Hasher changes domain_separator or the struct
\* definitions, whether the call succeeds or fails.
C8_HashEnvelope ==
  [][/\ built = "yes" =>
          /\ built' = "yes"
          /\ domain_separator' = domain_separator
          /\ struct_types' = struct_types
     /\ call'.op = "try_from" /\ ret'.ok =>
          Ok(domain_separator') = Strip(hash_struct(struct_types', type_hash_cell',
                                                    EIP_712_DOMAIN, typed_data.domain))
     /\ call'.op = "hash" =>
          LET hs == Strip(hash_struct(struct_types, type_hash_cell,
                                      call'.typed_data.primary_type,
                                      call'.typed_data.message))
          IN  IF hs.ok
              THEN ret' = Ok([keccak |-> <<Raw(<<25, 1>>), domain_separator, hs.val>>])
              ELSE ~ret'.ok]_vars

\* Witness: Hasher::hash succeeded on a document with a domain member and
\* its digest holds the domain separator of the construction.
C8_Witness ==
  /\ call.op = "hash"
  /\ ret.ok
  /\ typed_data.domain.o # <<>>
  /\ Ok(domain_separator) = Strip(hash_struct(struct_types, type_hash_cell,
                                              EIP_712_DOMAIN, typed_data.domain))
  /\ ret.val.keccak[2] = domain_separator

\* One of the four faults of a document
BadDocument(td) ==
  \/ EIP_712_DOMAIN \notin DOMAIN td.types
  \/ \E n \in DOMAIN td.types : n \in PrimitiveNames
  \/ \E n \in DOMAIN td.types : \E i, j \in 1..Len(td.types[n]) :
        i # j /\ td.types[n][i].name = td.types[n][j].name
  \/ \E n \in DOMAIN td.types : \E i \in 1..Len(td.types[n]) :
        td.types[n][i].type \in Unparseable

\* C9: Hasher::try_from fails and builds no Hasher when the type map lacks
\* EIP712Domain, declares a primitive type name, declares a struct with two
\* members of one name, or holds a member type name that does not parse;
\* whether it succeeds does not depend on the iteration order of the type map.
C9_TryFromFails ==
  call.op = "try_from" =>
    /\ BadDocument(typed_data) => NoDigest /\ built = "failed" /\ struct_types = EmptyMap
    /\ \A order \in Orders(DOMAIN typed_data.types) : try_from(typed_data, order).ok = ret.ok
    /\ ret.ok = (built = "yes")

\* Witness: try_from failed on a document whose only fault is a duplicate
\* member, with the faulty struct last in the iteration.
C9_Witness ==
  /\ call.op = "try_from"
  /\ ~ret.ok
  /\ call.order[Len(call.order)] = N1
  /\ EIP_712_DOMAIN \in DOMAIN typed_data.types
  /\ DOMAIN typed_data.types \cap PrimitiveNames = {}
  /\ \A n \in DOMAIN typed_data.types : \A i \in 1..Len(typed_data.types[n]) :
        typed_data.types[n][i].type \notin Unparseable
  /\ BadDocument(typed_data)

(***************************************************************************)
(* ethereum_transaction.rs: the unsigned pre-image of a request and its     *)
(* digest.  An RlpStream is the sequence of its begin_list and append       *)
(* calls; the digest is keccak256 of that stream.                           *)
(***************************************************************************)
EIP_1559_TRANSACTION_TYPE == 2

EIP_2930_TRANSACTION_TYPE == 1

RlpStream_new == <<>>

\* RlpStream::begin_list(len) and RlpStream::append(&value)
begin_list(len) == <<[list |-> len]>>

append(value) == <<[item |-> value]>>

\* Encodable for Option<T>: a list of no item or of one item
append_option(opt) == IF opt.some THEN begin_list(1) \o append(opt.v) ELSE begin_list(0)

\* if let Some(to) = request.to { rlp.append(&to) } else { rlp.append(&"") }
append_to(req) == IF req.to.some THEN append(req.to.v) ELSE append(<<>>)

RECURSIVE append_access_list(_)
\* for item in access_list.iter() { ... }
append_access_list(items) ==
  IF items = <<>> THEN <<>>
  ELSE begin_list(2) \o append(items[1].address)
         \o begin_list(Len(items[1].storage_keys))
         \o [i \in 1..Len(items[1].storage_keys) |-> [item |-> items[1].storage_keys[i]]]
         \o append_access_list(Tail(items))

rlp_append_unsigned_legacy(req, rlp, id) ==
  rlp \o begin_list(9)
      \o append_option(req.nonce)
      \o append_option(req.gas_price)
      \o append_option(req.gas)
      \o append_to(req)
      \o append_option(req.value)
      \o append_option(req.data)
      \o append(id)
      \o append(0)
      \o append(0)

rlp_append_unsigned_eip_2930(req, rlp, id) ==
  rlp \o begin_list(8)
      \o append(id)
      \o append_option(req.nonce)
      \o append_option(req.gas_price)
      \o append_option(req.gas)
      \o append_to(req)
      \o append_option(req.value)
      \o append_option(req.data)
      \o (IF req.access_list.some THEN append_access_list(req.access_list.v)
          ELSE <<>>)

rlp_append_unsigned_eip_1559(req, rlp, id) ==
  rlp \o begin_list(9)
      \o append(id)
      \o append_option(req.nonce)
      \o append_option(req.max_priority_fee_per_gas)
      \o append_option(req.max_fee_per_gas)
      \o append_option(req.gas)
      \o append_to(req)
      \o append_option(req.value)
      \o append_option(req.data)
      \o (IF req.access_list.some THEN append_access_list(req.access_list.v)
          ELSE <<>>)

RECURSIVE note_appended(_, _)
\* RlpStream::note_appended: the item joins the innermost unfinished list,
\* or the output when no list is open; a list that reached its announced
\* length is finished and joins its parent in turn.
note_appended(s, item) ==
  IF s.open = <<>> THEN [out |-> Append(s.out, item), open |-> <<>>]
  ELSE LET n == Len(s.open)
           Join(items) ==
             IF Len(items) = s.open[n].max
             THEN note_appended([out |-> s.out, open |-> SubSeq(s.open, 1, n - 1)],
                                [items |-> items])
             ELSE [out |-> s.out, open |-> [s.open EXCEPT ![n].items = items]]
       IN  Join(Append(s.open[n].items, item))

\* One begin_list or append call on the stream: begin_list(0) is the
\* finished empty list, begin_list(len) opens a list of len items.
RlpCall(s, token) ==
  IF "item" \in DOMAIN token THEN note_appended(s, token)
  ELSE IF token.list = 0 THEN note_appended(s, [items |-> <<>>])
  ELSE [out |-> s.out, open |-> Append(s.open, [max |-> token.list, items |-> <<>>])]

RECURSIVE RlpCalls(_, _, _)
RlpCalls(rlp, i, s) ==
  IF i > Len(rlp) THEN s ELSE RlpCalls(rlp, i + 1, RlpCall(s, rlp[i]))

\* RlpStream::as_raw: the finished items in out, and the lists still
\* unfinished (their items are in the buffer, their headers are not).
as_raw(rlp) == RlpCalls(rlp, 1, [out |-> <<>>, open |-> <<>>])

\* web3::signing::keccak256(rlp.as_raw())
keccak256(rlp) == [keccak |-> as_raw(rlp)]

\* SignableTransactionRequest::message_hash for Web3TransactionRequest
message_hash(req, id) ==
  LET type == req.transaction_type
  IN  CASE type = Some(EIP_1559_TRANSACTION_TYPE) ->
             IF req.gas_price.some THEN Err("InvalidData")
             ELSE Ok(keccak256(rlp_append_unsigned_eip_1559(req, RlpStream_new, id)))
        [] type = Some(EIP_2930_TRANSACTION_TYPE) ->
             IF req.max_fee_per_gas.some \/ req.max_priority_fee_per_gas.some
             THEN Err("InvalidData")
             ELSE Ok(keccak256(rlp_append_unsigned_eip_2930(req, RlpStream_new, id)))
        [] type.some /\ (type.v <= 127 \/ type.v = 255) -> Err("InvalidData")
        [] OTHER ->
             \* Legacy transaction
             IF \/ req.access_list.some
                \/ req.max_fee_per_gas.some
                \/ req.max_priority_fee_per_gas.some
             THEN Err("InvalidData")
             ELSE Ok(keccak256(rlp_append_unsigned_legacy(req, RlpStream_new, id)))

MessageHash ==
  /\ request # NoRequest
  /\ call' = [op |-> "message_hash", request |-> request, chain_id |-> chain_id]
  /\ ret' = message_hash(request, chain_id)
  /\ UNCHANGED <<typed_data, built, struct_types, type_hash_cell, domain_separator,
                 request, chain_id, signing>>

(***************************************************************************)
(* SpecTx: message_hash on transaction requests                             *)
(***************************************************************************)
NoTypedData == [unused |-> TRUE]

\* Unset, the three shapes, and types on both sides of 0x7f, 0x80, 0xfe, 0xff
TransactionTypes == {None} \cup {Some(t) : t \in {0, 1, 2, 3, 127, 128, 254, 255, 256}}

AccessLists ==
  {None, Some(<<>>),
   Some(<< [address |-> "address", storage_keys |-> <<"key1", "key2">>] >>),
   Some(<< [address |-> "address", storage_keys |-> <<"key1", "key2">>],
           [address |-> "other", storage_keys |-> <<>>] >>)}

Amounts == {None, Some(1)}

Requests ==
  [transaction_type : TransactionTypes,
   nonce : Amounts,
   gas_price : Amounts,
   gas : {Some(21000)},
   to : {None, Some("to")},
   value : {Some(1)},
   data : {None},
   access_list : AccessLists,
   max_fee_per_gas : Amounts,
   max_priority_fee_per_gas : Amounts]

ChainIds == {1, 137}

InitTx ==
  /\ request \in Requests
  /\ chain_id \in ChainIds
  /\ signing = NoSigning
  /\ typed_data = NoTypedData
  /\ Unbuilt
  /\ call = NoCall
  /\ ret = Ok("none")

NextTx == MessageHash

SpecTx == InitTx /\ [][NextTx]_vars

\* Absent or 0 selects the legacy shape
IsLegacy(req) == ~req.transaction_type.some \/ req.transaction_type.v = 0

\* C10: message_hash fails and yields no digest for type 2 with gasPrice, for
\* type 1 with maxFeePerGas or maxPriorityFeePerGas, and for a legacy request
\* with accessList, maxFeePerGas or maxPriorityFeePerGas; the same request
\* without the offending fields hashes successfully.
C10_FieldCombinations ==
  call.op = "message_hash" =>
    LET req == call.request
        fee_market == req.max_fee_per_gas.some \/ req.max_priority_fee_per_gas.some
        no_fee_market == [req EXCEPT !.max_fee_per_gas = None,
                                     !.max_priority_fee_per_gas = None]
    IN  /\ req.transaction_type = Some(2) /\ req.gas_price.some =>
             /\ NoDigest
             /\ message_hash([req EXCEPT !.gas_price = None], call.chain_id).ok
        /\ req.transaction_type = Some(1) /\ fee_market =>
             /\ NoDigest
             /\ message_hash(no_fee_market, call.chain_id).ok
        /\ IsLegacy(req) /\ (req.access_list.some \/ fee_market) =>
             /\ NoDigest
             /\ message_hash([no_fee_market EXCEPT !.access_list = None], call.chain_id).ok

\* The same request with no transactionType
Untyped(req) == [req EXCEPT !.transaction_type = None]

\* C11: a request with transactionType = 0 is encoded as the same request
\* with no transactionType: the same 9-element legacy pre-image and the same
\* digest, for equal remaining fields and equal chain id.
C11_ZeroIsLegacy ==
  call.op = "message_hash" /\ call.request.transaction_type = Some(0) =>
    /\ ret = message_hash(Untyped(call.request), call.chain_id)
    /\ ret.ok =>
         ret.val = keccak256(rlp_append_unsigned_legacy(call.request, RlpStream_new,
                                                        call.chain_id))

\* The types that select a shape, and the reserved range 0x80..=0xfe
SelectsShape(type) == ~type.some \/ type.v \in {0, 1, 2}

Reserved(type) == type.some /\ 128 <= type.v /\ type.v <= 254

\* C12: message_hash returns no digest for a request whose transactionType
\* is outside {unset, 0, 1, 2} and outside 0x80..=0xfe, whatever its other
\* fields are.
C12_UnknownTypeRejected ==
  call.op = "message_hash"
    /\ ~SelectsShape(call.request.transaction_type)
    /\ ~Reserved(call.request.transaction_type) => NoDigest

\* What a field of the request is in the list: an optional field is the
\* list of its value (Encodable for Option), to is the address or the empty
\* string, chain id and the two trailing zeros are plain values.
Plain(value) == [item |-> value]

Optional(opt) == [items |-> IF opt.some THEN <<Plain(opt.v)>> ELSE <<>>]

To(req) == IF req.to.some THEN Plain(req.to.v) ELSE Plain(<<>>)

\* accessList as one item: a list with one [address, [storageKeys...]] pair
\* per entry; an absent accessList is the empty list.
AccessListItem(req) ==
  LET entries == IF req.access_list.some THEN req.access_list.v ELSE <<>>
      Keys_(e) == [k \in 1..Len(e.storage_keys) |-> Plain(e.storage_keys[k])]
  IN  [items |-> [i \in 1..Len(entries) |->
         [items |-> <<Plain(entries[i].address), [items |-> Keys_(entries[i])]>>]]]

LegacyList(req, id) ==
  <<Optional(req.nonce), Optional(req.gas_price), Optional(req.gas), To(req),
    Optional(req.value), Optional(req.data), Plain(id), Plain(0), Plain(0)>>

AccessListShapeList(req, id) ==
  <<Plain(id), Optional(req.nonce), Optional(req.gas_price), Optional(req.gas), To(req),
    Optional(req.value), Optional(req.data), AccessListItem(req)>>

FeeMarketList(req, id) ==
  <<Plain(id), Optional(req.nonce), Optional(req.max_priority_fee_per_gas),
    Optional(req.max_fee_per_gas), Optional(req.gas), To(req),
    Optional(req.value), Optional(req.data), AccessListItem(req)>>

\* One complete top-level list of exactly these items, nothing unfinished
\* and nothing after it
OneCompleteList(raw, items) == raw = [out |-> << [items |-> items] >>, open |-> <<>>]

\* C13: the pre-image of every accepted request is one complete top-level
\* list with the arity and field order of its shape: 9 items for legacy,
\* 8 for access-list, 9 for fee-market, accessList being exactly one item,
\* itself a list with one [address, [storageKeys...]] pair per entry, for an
\* absent accessList and for zero, one or several entries.
C13_PreImageShape ==
  call.op = "message_hash" /\ ret.ok =>
    LET req == call.request
        type == req.transaction_type
    IN  OneCompleteList(ret.val.keccak,
          CASE type = Some(2) -> FeeMarketList(req, call.chain_id)
            [] type = Some(1) -> AccessListShapeList(req, call.chain_id)
            [] OTHER -> LegacyList(req, call.chain_id))

(***************************************************************************)
(* lib.rs, ethereum_message.rs, message.rs, transaction.rs: the bytes of a  *)
(* message and the sign step around an injected signer.  A message string   *)
(* is a sequence of characters, each the bytes of its UTF-8 encoding.       *)
(***************************************************************************)
Char(bytes) == [utf8 |-> bytes]

RECURSIVE str_as_bytes(_)
\* str::as_bytes
str_as_bytes(s) == IF s = <<>> THEN <<>> ELSE s[1].utf8 \o str_as_bytes(Tail(s))

\* The length counted in characters
str_len_chars(s) == Len(s)

\* Vec::len of s.as_bytes().to_vec()
str_len(s) == Len(str_as_bytes(s))

Message_String(s) == [t |-> "String", s |-> s]

Message_TypedData(td) == [t |-> "TypedData", td |-> td]

\* TypedData::hash: Hasher::try_from(self)?.hash(self)
TypedData_hash(td) ==
  LET Run(h) ==
        IF ~h.ok THEN h
        ELSE Strip(hash(h.val.struct_types, h.val.type_hash, h.val.domain_separator, td))
  IN  Run(try_from(td, AnOrder(DOMAIN td.types)))

\* "\x19Ethereum Signed Message:\n"
SignedMessagePrefix ==
  <<25>> \o AsBytes(<<"E", "t", "h", "e", "r", "e", "u", "m", " ", "S", "i", "g", "n", "e", "d",
                      " ", "M", "e", "s", "s", "a", "g", "e", ":">>) \o <<10>>

\* SignableMessage::message_hash for Message
Message_message_hash(message, id) ==
  IF message.t = "String"
  THEN Ok(SignedMessagePrefix \o AsBytes(Format(str_len(message.s)))
            \o str_as_bytes(message.s))
  ELSE LET Bytes(h) == IF h.ok THEN Ok(h.val) ELSE Err("InvalidData")
       IN  Bytes(TypedData_hash(message.td))

SignError_Sign(e) == [tag |-> "Sign", error |-> e]

\* A failed hash reported under the tag of the signer
SignError_Hash_as_sign(error) == [tag |-> "Sign", error |-> error]

SignError_Hash(error) == [tag |-> "Hash", error |-> error]

(***************************************************************************)
(* tests/helpers/signer.rs and web3::signing.  An ECDSA signature is the    *)
(* pair of what was signed and the key that signed it, with the standard    *)
(* recovery id 0 or 1; recover gives the address of the key exactly for     *)
(* the signed bytes and that recovery id.                                   *)
(***************************************************************************)
RecoveryId(key, digest) == key % 2

\* web3::signing::Key::sign(hash, chain_id); the chain ids of the model are
\* far from the ones whose double leaves u64
Key_sign(key, digest, id) ==
  [r_s |-> [signed |-> digest, by |-> key],
   v |-> IF id.some THEN RecoveryId(key, digest) + 35 + id.v * 2
         ELSE RecoveryId(key, digest) + 27]

Key_address(key) == [address_of |-> key]

\* The recovery id taken as if no chain id had been given
sign_recoverable_legacy_v(key, digest, id) ==
  LET Adjust(signature) == Ok(<<signature.r_s, signature.v - 27>>)
  IN  Adjust(Key_sign(key, digest, id))

\* TestSigner::sign_recoverable
sign_recoverable(key, digest, id) ==
  LET Adjust(signature) ==
        Ok(<<signature.r_s,
             IF id.some THEN signature.v - (35 + id.v * 2) ELSE signature.v - 27>>)
  IN  Adjust(Key_sign(key, digest, id))

\* web3::signing::recover(message, signature, recovery_id)
recover(message, signature, recovery_id) ==
  IF signature.signed = message /\ recovery_id = RecoveryId(signature.by, message)
  THEN Ok(Key_address(signature.by))
  ELSE Err("Recovery")

\* The injected signer applied to the bytes it is given
Provide(provider, digest, id) ==
  CASE provider.kind = "TestSigner" -> sign_recoverable(provider.key, digest, Some(id))
    [] provider.kind = "answers" -> Ok(provider.pair)
    [] OTHER -> Err(provider.error)

\* The signer invoked again with the same bytes
Invoke_twice(invoked, digest) == invoked \o <<digest, digest>>

\* provider(hash): one more invocation of the signer
Invoke(invoked, digest) == Append(invoked, digest)

\* Ok((signature, recovery)), or the signer's error under SignError::Sign
sign_message_result(o) == IF o.ok THEN Ok(o.val) ELSE Err(SignError_Sign(o.err))

\* provider(hash).await?: Ok((signature, recovery)), or the signer's error
sign_transaction_result(o) == IF o.ok THEN Ok(o.val) ELSE Err(o.err)

\* What sign_transaction goes on with after let hash = self.message_hash(chain_id):
\* it has no branch on the outcome, so the digest, or in its place the
\* failure message_hash gave, is what provider(hash) is called with.
Unchecked(h) == IF h.ok THEN h.val ELSE [failed |-> h.err]

\* let hash = self.message_hash(chain_id), of sign_message and of
\* sign_transaction.  sign_message returns on a failure; sign_transaction
\* goes on to the signer whatever message_hash gave.
SignHash ==
  /\ signing.op # "none"
  /\ signing.pc = "start"
  /\ call' = [op |-> signing.op, chain_id |-> chain_id]
  /\ IF signing.op = "sign_message"
     THEN \E h \in {Message_message_hash(signing.message, chain_id)} :
            IF h.ok
            THEN /\ signing' = [signing EXCEPT !.pc = "hashed", !.digest = Some(h.val)]
                 /\ ret' = ret
            ELSE /\ signing' = [signing EXCEPT !.pc = "done"]
                 /\ ret' = Err(SignError_Hash(h.err))
     ELSE \E h \in {message_hash(request, chain_id)} :
            /\ signing' = [signing EXCEPT !.pc = "hashed", !.digest = Some(Unchecked(h))]
            /\ ret' = ret
  /\ UNCHANGED <<typed_data, built, struct_types, type_hash_cell, domain_separator,
                 request, chain_id>>

\* provider(hash)
SignInvoke ==
  /\ signing.op # "none"
  /\ signing.pc = "hashed"
  /\ signing' = [signing EXCEPT !.pc = "awaiting",
                                !.invoked = Invoke(signing.invoked, signing.digest.v)]
  /\ UNCHANGED <<typed_data, built, struct_types, type_hash_cell, domain_separator,
                 call, ret, request, chain_id>>

\* .await of the signer's future, and the return of the method
SignAwait ==
  /\ signing.op # "none"
  /\ signing.pc = "awaiting"
  /\ \E o \in {Provide(signing.provider, signing.invoked[Len(signing.invoked)], chain_id)} :
        ret' = IF signing.op = "sign_message" THEN sign_message_result(o)
               ELSE sign_transaction_result(o)
  /\ signing' = [signing EXCEPT !.pc = "done"]
  /\ UNCHANGED <<typed_data, built, struct_types, type_hash_cell, domain_separator,
                 call, request, chain_id>>

(***************************************************************************)
(* SpecSign: sign_message and sign_transaction with an injected signer      *)
(***************************************************************************)
Ascii_a == Char(<<97>>)

\* U+00E9, two bytes in UTF-8
E_acute == Char(<<195, 169>>)

\* The empty string, one and two bytes in one character, twelve bytes in
\* eleven characters
MessageStrings ==
  {<<>>, <<Ascii_a>>, <<E_acute>>, [i \in 1..10 |-> Ascii_a] \o <<E_acute>>}

SignMessages ==
  {Message_String(s) : s \in MessageStrings}
    \cup {Message_TypedData(td) : td \in HasherDocs}

NoMessage == [t |-> "none"]

SignRequests == {r \in Requests : r.nonce = Some(1) /\ r.to = Some("to")}

\* Two keys of either recovery id, a signer with a fixed answer, and one
\* that fails
Providers ==
  {[kind |-> "TestSigner", key |-> k] : k \in {2, 3}}
    \cup {[kind |-> "answers", pair |-> <<"signature", 0>>],
          [kind |-> "fails", error |-> "rejected"]}

InitSign ==
  /\ chain_id \in ChainIds
  /\ \/ /\ request = NoRequest
        /\ signing \in [op : {"sign_message"}, pc : {"start"}, message : SignMessages,
                        provider : Providers, digest : {None}, invoked : {<<>>}]
     \/ /\ request \in SignRequests
        /\ signing \in [op : {"sign_transaction"}, pc : {"start"}, message : {NoMessage},
                        provider : Providers, digest : {None}, invoked : {<<>>}]
  /\ typed_data = NoTypedData
  /\ Unbuilt
  /\ call = NoCall
  /\ ret = Ok("none")

NextSign == SignHash \/ SignInvoke \/ SignAwait

SpecSign == InitSign /\ [][NextSign]_vars

\* The bytes message_hash(chain_id) returns in the call in progress
SignedBytes ==
  IF signing.op = "sign_message" THEN Message_message_hash(signing.message, chain_id)
  ELSE message_hash(request, chain_id)

Started == signing.op # "none" /\ signing.pc # "start"

Done == signing.op # "none" /\ signing.pc = "done"

\* C14: in one call of sign_message or sign_transaction the digest is
\* computed before the signer is invoked, the signer is invoked at most once
\* and, when the call returns a pair, exactly once, with exactly the bytes
\* message_hash(chain_id) returned (Unchecked); the pair the signer returns is
\* handed back unchanged, and after a failure the signer is not invoked again.
C14_SignerInvokedOnce ==
  /\ [](signing.op # "none" =>
          /\ Len(signing.invoked) <= 1
          /\ signing.invoked # <<>> =>
               /\ signing.digest = Some(Unchecked(SignedBytes))
               /\ signing.invoked = <<Unchecked(SignedBytes)>>
          /\ Done /\ ret.ok =>
               /\ Len(signing.invoked) = 1
               /\ Provide(signing.provider, Unchecked(SignedBytes), chain_id) = Ok(ret.val))
  /\ [][signing.op # "none" /\ signing'.invoked # signing.invoked =>
          /\ signing.digest.some
          /\ signing.invoked = <<>>
          /\ signing'.invoked = <<signing.digest.v>>]_vars

C14_Witness ==
  /\ signing.op = "sign_transaction"
  /\ Done
  /\ ret.ok
  /\ SignedBytes.ok
  /\ signing.invoked = <<SignedBytes.val>>

\* C15: sign_message tags the failing stage.  When message_hash fails the
\* result is SignError::Hash carrying that error and the signer is never
\* invoked; when the signer fails with e the result is SignError::Sign(e); a
\* (signature, recoveryId) pair is returned only when both stages succeeded.
C15_StageTagged ==
  signing.op = "sign_message" =>
    LET Tagged(tag, e) == ~ret.ok /\ ret.err.tag = tag /\ ret.err.error = e
        Signed(o) == IF o.ok THEN ret = Ok(o.val) ELSE Tagged("Sign", o.err)
        Staged(h) ==
          IF ~h.ok
          THEN /\ signing.invoked = <<>>
               /\ Started => Done /\ Tagged("Hash", h.err)
          ELSE Done => Signed(Provide(signing.provider, h.val, chain_id))
    IN  Staged(SignedBytes)

C15_Witness ==
  /\ signing.op = "sign_message"
  /\ Done
  /\ ~ret.ok
  /\ ret.err.tag = "Hash"
  /\ signing.invoked = <<>>

RECURSIVE Decimal(_)
\* The ASCII digits of a number written in decimal
Decimal(n) == IF n < 10 THEN <<48 + n>> ELSE Decimal(n \div 10) \o <<48 + (n % 10)>>

RECURSIVE Utf8(_)
Utf8(s) == IF s = <<>> THEN <<>> ELSE s[1].utf8 \o Utf8(Tail(s))

\* 0x19, "Ethereum Signed Message:", 0x0A
PrefixBytes ==
  <<25, 69, 116, 104, 101, 114, 101, 117, 109, 32, 83, 105, 103, 110, 101, 100, 32,
    77, 101, 115, 115, 97, 103, 101, 58, 10>>

\* C16: for a plain string message s the bytes derived for signing are the
\* prefix 0x19 "Ethereum Signed Message:" 0x0A, the decimal length of s in
\* UTF-8 bytes, and the bytes of s; they are plain bytes and no struct
\* digest, the derivation cannot fail, and it is the same for every chain id.
C16_PrefixedString ==
  signing.op = "sign_message" /\ signing.message.t = "String" /\ Started =>
    LET s == signing.message.s
        expected == PrefixBytes \o Decimal(Len(Utf8(s))) \o Utf8(s)
    IN  /\ signing.digest = Some(expected)
        /\ \A i \in 1..Len(expected) : expected[i] \in 0..255
        /\ \A id \in ChainIds : Message_message_hash(signing.message, id) = Ok(expected)

C16_Witness ==
  /\ signing.op = "sign_message"
  /\ signing.message.t = "String"
  /\ Len(signing.message.s) = 11
  /\ signing.digest.some
  /\ Len(signing.digest.v) = Len(PrefixBytes) + 2 + 12

\* C18: for a key and a transaction request of each of the three shapes,
\* recovering the signer from message_hash(chain_id) and the (signature,
\* recoveryId) pair returned by sign_transaction gives the address of the
\* key.
C18_SignRecover ==
  signing.op = "sign_transaction" /\ signing.provider.kind = "TestSigner" /\ Done
    /\ message_hash(request, chain_id).ok =>
    /\ ret.ok
    /\ recover(message_hash(request, chain_id).val, ret.val[1], ret.val[2])
         = Ok(Key_address(signing.provider.key))

C18_Witness ==
  /\ signing.op = "sign_transaction"
  /\ signing.provider.kind = "TestSigner"
  /\ Done
  /\ request.transaction_type = Some(EIP_1559_TRANSACTION_TYPE)
  /\ message_hash(request, chain_id).ok
  /\ recover(signing.digest.v, ret.val[1], ret.val[2]) = Ok(Key_address(signing.provider.key))

(***************************************************************************)
(* known_message_type.rs, known_transaction_type.rs: dispatch by coin type. *)
(* A payload is known by what serde_json::from_value makes of it; a panic   *)
(* is a result of its own kind.                                             *)
(***************************************************************************)
\* CoinType::Ethereum, CoinType::Solana, and a variant the `_` arms take
CoinTypes == {"Ethereum", "Solana", "Other"}

Panic(msg) == [ok |-> FALSE, panic |-> msg]

\* serde_json::from_value(value)?
from_value(value, target) == IF value[target] THEN Ok(value.id) ELSE Err("Json")

KnownMessageType_Ethereum(message) == [variant |-> "Ethereum", of |-> message]

KnownTransactionRequestType_Ethereum(tx) == [variant |-> "Ethereum", of |-> tx]

KnownTransactionRequestType_Solana(tx) == [variant |-> "Solana", of |-> tx]

\* KnownMessageType::from_json
KnownMessageType_from_json(value, coin_type) ==
  IF coin_type = "Ethereum"
  THEN LET Wrap(m) == IF m.ok THEN Ok(KnownMessageType_Ethereum(m.val)) ELSE m
       IN  Wrap(from_value(value, "ethereum_message"))
  ELSE Err("InvalidCoinType")

\* KnownTransactionRequestType::from_json
KnownTransactionRequestType_from_json(value, coin_type) ==
  CASE coin_type = "Ethereum" ->
         LET Wrap(t) == IF t.ok THEN Ok(KnownTransactionRequestType_Ethereum(t.val)) ELSE t
         IN  Wrap(from_value(value, "ethereum_request"))
    [] coin_type = "Solana" ->
         LET Wrap(t) == IF t.ok THEN Ok(KnownTransactionRequestType_Solana(t.val)) ELSE t
         IN  Wrap(from_value(value, "solana_transaction"))
    [] OTHER -> Err("InvalidCoinType")

\* KnownTransactionRequestType::transaction_request
transaction_request(known) ==
  IF known.variant = "Ethereum" THEN Ok([dyn |-> "TransactionRequest", of |-> known.of])
  ELSE Panic("Cant handle Solana yet")

\* KnownTransactionRequestType::signable_transaction_request
signable_transaction_request(known) ==
  IF known.variant = "Ethereum"
  THEN Ok([dyn |-> "SignableTransactionRequest", of |-> known.of])
  ELSE Panic("Can't sign Solana yet")

\* lib.rs: known_message_type_from_json(json, coin_type, chain_id)
KnownMessageTypeFromJson(json, coin_type, id) ==
  /\ call' = [op |-> "known_message_type_from_json", json |-> json,
              coin_type |-> coin_type, chain_id |-> id]
  /\ ret' = KnownMessageType_from_json(json, coin_type)
  /\ UNCHANGED <<typed_data, built, struct_types, type_hash_cell, domain_separator,
                 request, chain_id, signing>>

\* lib.rs: known_transaction_request_type_from_json(json, coin_type, chain_id)
KnownTransactionRequestTypeFromJson(json, coin_type, id) ==
  /\ call' = [op |-> "known_transaction_request_type_from_json", json |-> json,
              coin_type |-> coin_type, chain_id |-> id]
  /\ ret' = KnownTransactionRequestType_from_json(json, coin_type)
  /\ UNCHANGED <<typed_data, built, struct_types, type_hash_cell, domain_separator,
                 request, chain_id, signing>>

\* A dispatched transaction request type is at hand
Dispatched == call.op = "known_transaction_request_type_from_json" /\ ret.ok

TransactionRequest ==
  /\ Dispatched
  /\ call' = [op |-> "transaction_request", known |-> ret.val, from |-> call]
  /\ ret' = transaction_request(ret.val)
  /\ UNCHANGED <<typed_data, built, struct_types, type_hash_cell, domain_separator,
                 request, chain_id, signing>>

SignableTransactionRequest ==
  /\ Dispatched
  /\ call' = [op |-> "signable_transaction_request", known |-> ret.val, from |-> call]
  /\ ret' = signable_transaction_request(ret.val)
  /\ UNCHANGED <<typed_data, built, struct_types, type_hash_cell, domain_separator,
                 request, chain_id, signing>>

(***************************************************************************)
(* SpecDispatch                                                             *)
(***************************************************************************)
\* Payloads by the types they deserialize to
Payloads ==
  [id : {"payload"}, ethereum_message : BOOLEAN, ethereum_request : BOOLEAN,
   solana_transaction : BOOLEAN]

OptionalChainIds == {None} \cup {Some(id) : id \in ChainIds}

InitDispatch ==
  /\ typed_data = NoTypedData
  /\ Unbuilt
  /\ call = NoCall
  /\ ret = Ok("none")
  /\ request = NoRequest
  /\ chain_id = 0
  /\ signing = NoSigning

NextDispatch ==
  \/ \E json \in Payloads, coin_type \in CoinTypes, id \in OptionalChainIds :
        KnownMessageTypeFromJson(json, coin_type, id)
  \/ \E json \in Payloads, coin_type \in CoinTypes, id \in OptionalChainIds :
        KnownTransactionRequestTypeFromJson(json, coin_type, id)
  \/ TransactionRequest
  \/ SignableTransactionRequest

SpecDispatch == InitDispatch /\ [][NextDispatch]_vars

\* C17: for the Ethereum coin type and a payload that parses, both dispatch
\* functions return the Ethereum implementation; for every other coin type
\* they return an error; and transaction_request() or
\* signable_transaction_request() after a dispatch never ends in a panic.
C17_DispatchByCoinType ==
  /\ call.op = "known_message_type_from_json" =>
       IF call.coin_type = "Ethereum"
       THEN call.json.ethereum_message => ret.ok /\ ret.val.variant = "Ethereum"
       ELSE ~ret.ok
  /\ call.op = "known_transaction_request_type_from_json" =>
       IF call.coin_type = "Ethereum"
       THEN call.json.ethereum_request => ret.ok /\ ret.val.variant = "Ethereum"
       ELSE ~ret.ok
  /\ "panic" \notin DOMAIN ret

(***************************************************************************)
(* SpecSlot: hash_value on arrays and on addresses                          *)
(***************************************************************************)
\* Longest JSON array of the documents
MaxArrayLen == 3

s_uint8_array(size) == s_uint8 \o <<"[">> \o size \o <<"]">>

\* Dynamic and fixed arrays of uint8, of bool and of the struct Ba
ArrayTypeNames ==
  {s_uint8_array(<<>>), s_uint8_array(<<"2">>), s_uint8_array(<<"0">>),
   s_bool \o <<"[", "]">>, s_bool \o <<"[", "1", "]">>,
   N2 \o <<"[", "]">>, N2 \o <<"[", "2", "]">>}

\* 256, one more than a uint8 holds
TooWide == JNumber("PosInt", <<1, 0>>)

ArrayElements == {One, TooWide, JBool(TRUE), BaOk, BaExtra}

RECURSIVE SeqsUpTo(_, _)
SeqsUpTo(set, n) ==
  IF n = 0 THEN {<<>>}
  ELSE LET Longer(shorter) == shorter \cup {Append(q, x) : q \in shorter, x \in set}
       IN  Longer(SeqsUpTo(set, n - 1))

ArrayValues ==
  {JArray(a) : a \in SeqsUpTo(ArrayElements, MaxArrayLen)} \cup {JNull, One, BaOk}

Zeros(n) == [i \in 1..n |-> "0"]

\* 20 bytes written with and without 0x, in either case of the digits; the
\* values 2^160 and 2^256 - 1; 65 digits; strings that are no numbers
AddressStrings ==
  {<<"0", "x">> \o [i \in 1..40 |-> "a"], [i \in 1..40 |-> "F"], <<"0", "x", "1">>,
   <<"0", "x">> \o [i \in 1..40 |-> "f"],
   <<"0", "x", "1">> \o Zeros(40), <<"1">> \o Zeros(40), [i \in 1..64 |-> "f"],
   <<"1">> \o Zeros(64), <<"0", "x", "z", "z">>, <<"h", "e", "l", "l", "o">>}

AddressValues ==
  {JString(a) : a \in AddressStrings} \cup {One, JBool(TRUE), JArray(<<>>), EmptyObject}

SlotDocs ==
  {[types |-> [n \in {EIP_712_DOMAIN, N1, N2} |->
                 CASE n = N1 -> << [name |-> MemberName(1), type |-> t] >>
                   [] n = N2 -> << [name |-> MemberName(1), type |-> s_uint8] >>
                   [] OTHER -> <<>>],
    primary_type |-> N1, domain |-> EmptyObject,
    message |-> JObject(<< <<MemberName(1), v>> >>)] :
     t \in ArrayTypeNames \cup {s_address}, v \in ArrayValues \cup AddressValues}

InitSlot ==
  /\ typed_data \in SlotDocs
  /\ Constructed(typed_data)
  /\ call = NoCall
  /\ ret = Ok("Hasher")
  /\ request = NoRequest
  /\ chain_id = 0
  /\ signing = NoSigning

NextSlot ==
  \/ HashValue(struct_types[N1].members[1].type_, typed_data.message.o[1][2])
  \/ HashArray(struct_types[N1].members[1].type_, typed_data.message.o[1][2])
  \/ HashStruct(typed_data.primary_type, typed_data.message)

SpecSlot == InitSlot /\ [][NextSlot]_vars

IsArrayValueCall == call.op = "hash_value" /\ call.type.t \in {"FixedArray", "Array"}

\* C19: for FixedArray(n, T) hash_value returns no digest unless the JSON
\* value is an array of exactly n elements; for such an array, and for a
\* dynamic Array of any length, 0 included, the slot is keccak256 of the
\* elements' 32-byte slots against T, concatenated in order, and the array
\* fails as soon as one element fails.
C19_ArraySlot ==
  IsArrayValueCall =>
    LET type == call.type
        value == call.value
        Expected(slots) ==
          IF \A i \in 1..Len(slots) : slots[i].ok
          THEN ret = Ok(Keccak_finish(WriteAll(Keccak_v256,
                                               [i \in 1..Len(slots) |-> slots[i].val])))
          ELSE NoDigest
        Slots(T, arr) ==
          [i \in 1..Len(arr) |-> hash_value(struct_types, type_hash_cell, T, arr[i])]
    IN  IF type.t = "FixedArray" /\ (value.t # "Array" \/ Len(value.a) # type.size)
        THEN NoDigest
        ELSE value.t = "Array" => Expected(Slots(try_from_name(type.name).val, value.a))

C19_Witness ==
  /\ IsArrayValueCall
  /\ call.type.t = "FixedArray"
  /\ call.type.size = 2
  /\ call.value.t = "Array"
  /\ Len(call.value.a) = 2
  /\ ret.ok

FirstBytesZero(slot, n) == \A i \in 1..n : slot.raw[i] = 0

\* The digits of an address string, 0x dropped, leading zeros dropped
AddressDigits(str) ==
  LET digits == IF Len(str) >= 2 /\ SubSeq(str, 1, 2) = <<"0", "x">>
                THEN SubSeq(str, 3, Len(str)) ELSE str
      lead == CHOOSE k \in 0..Len(digits) :
                 /\ \A i \in 1..k : digits[i] = "0"
                 /\ k < Len(digits) => digits[k + 1] # "0"
  IN  SubSeq(digits, lead + 1, Len(digits))

IsHexNumber(str) ==
  \A i \in 1..Len(str) : \E j \in 1..16 : str[i] = HexDigits[j] \/ str[i] = UpperHexDigits[j]

\* C20: every address slot that hash_value returns is a uint160 right-aligned
\* in 32 bytes, its first 12 bytes zero; a string that denotes 2^160 or more,
\* a string that is no number, and a JSON value that is no string all fail.
C20_AddressSlot ==
  call.op = "hash_value" /\ call.type.t = "Address" =>
    /\ ret.ok => IsRaw(ret.val) /\ Len(ret.val.raw) = 32 /\ FirstBytesZero(ret.val, 12)
    /\ call.value.t # "String" => NoDigest
    /\ call.value.t = "String" =>
         LET digits == AddressDigits(call.value.s)
         IN  ~IsHexNumber(digits) \/ Len(digits) > 40 => NoDigest

(***************************************************************************)
(* SpecNames: Type::try_from_name, Type::is_valid, is_ident and             *)
(* StructType::try_from_named_struct on short and on chosen names           *)
(***************************************************************************)
\* Longest name built from the alphabet
MaxNameLen == 3

NameAlphabet == {"a", "9", "3", "[", "]", " ", "$"}

RECURSIVE StringsUpTo(_, _)
StringsUpTo(set, n) ==
  IF n = 0 THEN {<<>>}
  ELSE LET shorter == StringsUpTo(set, n - 1)
       IN  shorter \cup {Append(q, x) : q \in {r \in shorter : Len(r) = n - 1}, x \in set}

\* Widths that are no multiple of 8, multiples of 8 with and without support,
\* and widths above 256
IntegerWidths == {0, 7, 8, 24, 64, 248, 256, 257, 264}

\* The widths in decimal, and two widths written with a leading zero
IntegerNames ==
  {prefix \o Format(w) : prefix \in {s_uint, s_int}, w \in IntegerWidths}
    \cup {s_uint \o <<"0", "7">>, s_uint \o <<"0", "2", "4">>}

\* Names of the tests of types.rs and other names with brackets
ChosenNames ==
  { <<"f", "o", "o">>, <<"$", "b", "a", "r", "9">>, <<"_", "4", "b", "a", "r", "_">>,
    <<"8">>, <<" ", "h", "e", "l", "l", "o">>, <<"r", "r", "r", "[", "1", "]", "]">>,
    <<"H", "e", "l", "l", "o", " ", "W", "o", "r", "l", "d">>,
    <<"9", "n", "o", "p", "e">>, <<"F", "o", "o", "[", "]">>, <<"F", "o", "o", "[", "3", "]">>,
    <<"9", "x", "[", "]">>, <<"a", " ", "b", "[", "]">>,
    <<"f", "o", "o", "[", "]", "b", "a", "r">>, <<"f", "o", "o", "[", "3", "]", "[", "2", "]">>,
    <<"f", "o", "o", "[", "]", "[", "]">>, <<"f", "o", "o", "[", "+", "3", "]">>,
    <<"u", "i", "n", "t", "8", "[", "2", "]">>, <<"A">>, <<"_">>, s_bool, s_bytes \o <<"3", "3">>,
    N1, EIP_712_DOMAIN }

TypeNames == StringsUpTo(NameAlphabet, MaxNameLen) \cup IntegerNames \cup ChosenNames

\* Member declarations of a struct under construction
NamedStructMembers ==
  {<<>>, <<Member(1, s_bool)>>, <<Member(1, s_bool), Member(1, s_bool)>>,
   <<Member(1, <<"9", "n", "o", "p", "e">>)>>}

\* Each call is made once, on a name or a declaration of the sets above.
TryFromName(name) ==
  /\ call = NoCall
  /\ call' = [op |-> "try_from_name", name |-> name]
  /\ ret' = try_from_name(name)
  /\ UNCHANGED <<typed_data, built, struct_types, type_hash_cell, domain_separator,
                 request, chain_id, signing>>

\* is_valid on the type the last try_from_name gave
IsValid ==
  /\ call.op = "try_from_name"
  /\ ret.ok
  /\ call' = [op |-> "is_valid", name |-> call.name, type |-> ret.val]
  /\ ret' = Ok(is_valid(ret.val))
  /\ UNCHANGED <<typed_data, built, struct_types, type_hash_cell, domain_separator,
                 request, chain_id, signing>>

IsIdent(ident) ==
  /\ call = NoCall
  /\ call' = [op |-> "is_ident", name |-> ident]
  /\ ret' = Ok(is_ident(ident))
  /\ UNCHANGED <<typed_data, built, struct_types, type_hash_cell, domain_separator,
                 request, chain_id, signing>>

TryFromNamedStruct(name, members) ==
  /\ call = NoCall
  /\ call' = [op |-> "try_from_named_struct", name |-> name, members |-> members]
  /\ ret' = try_from_named_struct(name, members)
  /\ UNCHANGED <<typed_data, built, struct_types, type_hash_cell, domain_separator,
                 request, chain_id, signing>>

InitNames ==
  /\ typed_data = NoTypedData
  /\ Unbuilt
  /\ call = NoCall
  /\ ret = Ok("none")
  /\ request = NoRequest
  /\ chain_id = 0
  /\ signing = NoSigning

NextNames ==
  \/ \E name \in TypeNames : TryFromName(name)
  \/ IsValid
  \/ \E ident \in TypeNames : IsIdent(ident)
  \/ \E name \in ChosenNames, members \in NamedStructMembers : TryFromNamedStruct(name, members)

SpecNames == InitNames /\ [][NextNames]_vars

\* A Solidity identifier: one of [a-zA-Z$_], then any number of [a-zA-Z0-9$_]
Identifier(s) ==
  LET Letter(c) == Ascii(c) \in (65..90) \cup (97..122) \cup {36, 95}
      Digit(c) == Ascii(c) \in 48..57
  IN  /\ s # <<>>
      /\ Letter(s[1])
      /\ \A i \in 2..Len(s) : Letter(s[i]) \/ Digit(s[i])

ElementName(s) == s \in PrimitiveNames \/ Identifier(s)

\* Ident[N] or Ident[]: one bracket pair that ends the name, digits between
ArrayName(s) ==
  \E i \in 1..Len(s) :
     /\ s[i] = "["
     /\ s[Len(s)] = "]"
     /\ i < Len(s)
     /\ ElementName(SubSeq(s, 1, i - 1))
     /\ \A j \in (i + 1)..(Len(s) - 1) : Ascii(s[j]) \in 48..57

\* C23: Type::try_from_name fails for every string that is no primitive type
\* name, no identifier and not Ident[N] or Ident[] with Ident a primitive name
\* or an identifier and N decimal digits: also for an empty or invalid element
\* part, for characters after the closing bracket and for more than one
\* bracket pair.
C23_MalformedNameFails ==
  call.op = "try_from_name" /\ ~(ElementName(call.name) \/ ArrayName(call.name)) => ~ret.ok

IntegerLike(name) ==
  \E prefix \in {s_uint, s_int} :
     /\ StartsWith(name, prefix)
     /\ Len(name) > Len(prefix)
     /\ \A i \in (Len(prefix) + 1)..Len(name) : Ascii(name[i]) \in 48..57

WidthOf(name) ==
  LET prefix == IF StartsWith(name, s_uint) THEN s_uint ELSE s_int
  IN  DecValue(SubSeq(name, Len(prefix) + 1, Len(name)))

SupportedWidth(w) == w \in {8, 16, 32, 64, 128, 256}

\* C24 as stated: try_from_name succeeds on every integer-like name whose
\* width is not supported, such as uint7, and is_valid is false for the type
\* it yields.
C24_UnsupportedWidthInvalid ==
  call.op \in {"try_from_name", "is_valid"} /\ IntegerLike(call.name)
    /\ ~SupportedWidth(WidthOf(call.name)) =>
      /\ ret.ok
      /\ call.op = "is_valid" => ret.val = FALSE

\* C24 amended: try_from_name succeeds on every integer-like name whose width
\* is not supported.  When the width is a multiple of 8 from 8 to 256,
\* written without a leading zero, the name is a primitive name, the type is
\* the integer type of that width and is_valid is false for it; every other
\* such name parses as a struct reference, for which is_valid is true.
C24_ParseThenValidate ==
  call.op \in {"try_from_name", "is_valid"} /\ IntegerLike(call.name)
    /\ ~SupportedWidth(WidthOf(call.name)) =>
      LET w == WidthOf(call.name)
          named == /\ w % 8 = 0 /\ 8 <= w /\ w <= 256
                   /\ call.name[Len(call.name) - Len(Format(w)) + 1] # "0"
                   /\ Len(call.name) - Len(Format(w)) \in {Len(s_int), Len(s_uint)}
          type == IF call.op = "is_valid" THEN call.type ELSE ret.val
      IN  /\ ret.ok
          /\ IF named THEN type.t \in {"Uint", "Int"} /\ type.size = w
             ELSE type = Type_Struct(call.name)
          /\ call.op = "is_valid" => ret.val = ~named

\* Witness: uint24 parsed as the unsigned integer type of 24 bits and was
\* found invalid.
C24_Witness ==
  /\ call.op = "is_valid"
  /\ call.name = s_uint \o <<"2", "4">>
  /\ call.type.t = "Uint"
  /\ ret = Ok(FALSE)

\* C28: is_ident accepts exactly the Solidity identifiers, and every
\* identifier that is no primitive name, also one of a single character,
\* parses as the struct reference of that name.
C28_SolidityIdentifier ==
  /\ call.op = "is_ident" => ret = Ok(Identifier(call.name))
  /\ call.op = "try_from_name" /\ Identifier(call.name) /\ call.name \notin PrimitiveNames =>
       ret = Ok(Type_Struct(call.name))

\* C25: StructType::try_from_named_struct fails for every struct name that is
\* no identifier.
C25_NamedStructIdentifier ==
  call.op = "try_from_named_struct" /\ ~Identifier(call.name) => ~ret.ok

(***************************************************************************)
(* SpecRegistry: Hasher::try_from, type_hash and hash_struct on documents   *)
(* whose structs refer to each other, to themselves and to a name that is   *)
(* not declared                                                             *)
(***************************************************************************)
RegistryTargets == {N1, N2, N3, Undeclared}

\* EIP712Domain, Abc, Ba and ab with the members these targets give
RegistryDocs ==
  {[types |-> [n \in {EIP_712_DOMAIN, N1, N2, N3} |->
                 CASE n = N1 -> MembersOf(t1, 1)
                   [] n = N2 -> MembersOf(t2, 2)
                   [] n = N3 -> MembersOf(t3, 3)
                   [] OTHER -> MembersOf(t0, 0)],
    primary_type |-> N1, domain |-> EmptyObject, message |-> EmptyObject] :
     t0 \in {<<>>, <<N3>>, <<Undeclared>>},
     t1 \in DistinctTargetSeqs(RegistryTargets, 2),
     t2 \in {<<>>, <<N3>>, <<N1>>, <<Undeclared>>},
     t3 \in {<<>>, <<s_uint8>>, <<N2>>, <<Undeclared>>}}

\* Objects that leave every member out or set it to null
RegistryValues ==
  {EmptyObject, JObject(<< <<MemberName(1), JNull>> >>),
   JObject(<< <<MemberName(1), JNull>>, <<MemberName(2), JNull>> >>)}

InitRegistry ==
  /\ typed_data \in RegistryDocs
  /\ Unbuilt
  /\ call = NoCall
  /\ ret = Ok("none")
  /\ request = NoRequest
  /\ chain_id = 0
  /\ signing = NoSigning

NextRegistry ==
  \/ TryFrom(AnOrder(DOMAIN typed_data.types))
  \/ \E key \in DOMAIN struct_types : TypeHash(key)
  \/ \E name \in DOMAIN struct_types, value \in RegistryValues : HashStruct(name, value)

SpecRegistry == InitRegistry /\ [][NextRegistry]_vars

RECURSIVE CanonicalMembers(_)
\* "type name" of every declared member, as the document writes the type,
\* with a comma between two members
CanonicalMembers(members) ==
  IF members = <<>> THEN <<>>
  ELSE members[1].type \o <<" ">> \o members[1].name
         \o (IF Len(members) > 1 THEN <<",">> ELSE <<>>) \o CanonicalMembers(Tail(members))

RECURSIVE CanonicalType(_, _)
\* Name(members) of every struct of the list, nothing between two structs
CanonicalType(types, names) ==
  IF names = <<>> THEN <<>>
  ELSE names[1] \o <<"(">> \o CanonicalMembers(types[names[1]]) \o <<")">>
         \o CanonicalType(types, Tail(names))

\* C21: the string type_hash hashes for a struct S is the concatenation, with
\* no separator, of Name(type1 name1,type2 name2,...) for each struct of the
\* resolver's ordered list for S, a struct without members giving Name(), with
\* the members in declaration order and every member type written as its
\* reference name (Ba[2] or Ba[], not Ba); without such a list there is no
\* type hash.
C21_CanonicalTypeString ==
  call.op = "type_hash" =>
    LET Hashed(deps) ==
          IF deps.ok
          THEN ret = Ok([keccak |-> <<Raw(AsBytes(CanonicalType(typed_data.types, deps.val)))>>])
          ELSE ~ret.ok
    IN  Hashed(get_referenced_structs(struct_types, call.key))

\* Witness: a type hash over three structs, one of them without members, one
\* with a member that is a fixed array of structs and one with a dynamic one.
C21_Witness ==
  /\ call.op = "type_hash"
  /\ ret.ok
  /\ LET deps == get_referenced_structs(struct_types, call.key).val
     IN  /\ Len(deps) = 3
         /\ \E i \in 1..3 : struct_types[deps[i]].members = <<>>
         /\ {"FixedArray", "Array"} \subseteq
              UNION {{struct_types[deps[i]].members[j].type_.t :
                        j \in 1..Len(struct_types[deps[i]].members)} : i \in 1..3}

\* The struct refers, directly or through other structs, to a name that is
\* not declared
RefersToUndeclared(st, name) == ~(Reachable(st, name) \subseteq DOMAIN st)

\* C29: a member type naming a struct that is not declared does not stop the
\* struct types from being defined; Hasher::try_from fails only when
\* EIP712Domain refers to the name, and every hash_struct of a struct that
\* refers to it directly or through other structs fails, also when the value
\* leaves the member out or sets it to null.
C29_UndeclaredReferenceFails ==
  /\ call.op = "try_from" =>
       LET Built(defs) ==
             /\ defs.ok
             /\ ret.ok = ~RefersToUndeclared(defs.val, EIP_712_DOMAIN)
       IN  Built(DefineStructs(typed_data.types, call.order, 1, EmptyMap))
  /\ call.op = "hash_struct" /\ call.name \in DOMAIN struct_types
       /\ RefersToUndeclared(struct_types, call.name) => NoDigest

\* Witness: hash_struct failed on the empty object for a struct that refers
\* to the undeclared name only through another struct.
C29_Witness ==
  /\ call.op = "hash_struct"
  /\ call.value = EmptyObject
  /\ call.name \in DOMAIN struct_types
  /\ Undeclared \notin RefsOf(struct_types, call.name)
  /\ RefersToUndeclared(struct_types, call.name)
  /\ ~ret.ok

\* The cells of a Hasher none of whose type hashes has been computed
Cold(st) == [n \in DOMAIN st |-> None]

\* C26: a struct's cached type hash is set at most once and never changes
\* afterwards, a cached value is the value the computation without a cache
\* gives, and every call of hash on a constructed Hasher returns what it
\* returns with an empty cache, whatever calls were made before.
C26_MemoUnobservable ==
  [][/\ built' = "yes" =>
          \A k \in DOMAIN type_hash_cell' :
             type_hash_cell'[k].some =>
               Ok(type_hash_cell'[k].v) = Strip(type_hash(struct_types', Cold(struct_types'), k))
     /\ built = "yes" =>
          \A k \in DOMAIN type_hash_cell :
             type_hash_cell[k].some => type_hash_cell'[k] = type_hash_cell[k]
     /\ built = "yes" /\ call'.op = "hash" =>
          ret' = Strip(hash(struct_types, Cold(struct_types), domain_separator,
                            call'.typed_data))
     /\ built = "yes" /\ call'.op = "type_hash" =>
          ret' = Strip(type_hash(struct_types, Cold(struct_types), call'.key))]_vars

\* Witness: hash succeeded and left the type hashes of the primary struct
\* and of the struct it refers to in their cells.
C26_Witness ==
  /\ call.op = "hash"
  /\ ret.ok
  /\ built = "yes"
  /\ type_hash_cell[N1].some
  /\ type_hash_cell[N2].some
  /\ type_hash_cell[N1].v # type_hash_cell[N2].v

(***************************************************************************)
(* SpecVisit: the loop of get_referenced_structs, one iteration a step.     *)
(* call holds the locals of the call: visited, stack, and the names whose   *)
(* members have been pushed, in the order in which they were.               *)
(***************************************************************************)
\* The name taken as new every time
HashSet_insert_forgotten(set, x) == set

\* HashSet::insert: the set with x in it
HashSet_insert(set, x) == set \cup {x}

\* let mut visited = HashSet::new(); let mut stack = vec![primary_type]
VisitBegin(primary_type) ==
  /\ built = "yes"
  /\ call = NoCall
  /\ call' = [op |-> "visiting", pc |-> "loop", primary_type |-> primary_type,
              visited |-> {}, stack |-> <<primary_type>>, expanded |-> <<>>]
  /\ UNCHANGED <<typed_data, built, struct_types, type_hash_cell, domain_separator,
                 ret, request, chain_id, signing>>

\* One iteration of while let Some(dep_name) = stack.pop()
VisitPop ==
  /\ call.op = "visiting"
  /\ call.pc = "loop"
  /\ call.stack # <<>>
  /\ LET dep_name == call.stack[Len(call.stack)]
         rest == SubSeq(call.stack, 1, Len(call.stack) - 1)
         inserted == HashSet_insert(call.visited, dep_name)
     IN  IF dep_name \in call.visited
         THEN /\ call' = [call EXCEPT !.stack = rest]
              /\ ret' = ret
         ELSE IF dep_name \notin DOMAIN struct_types
         THEN /\ call' = [call EXCEPT !.pc = "done", !.stack = rest, !.visited = inserted]
              /\ ret' = Err("invalid struct name")
         ELSE /\ call' = [call EXCEPT
                            !.visited = inserted,
                            !.stack = rest \o PushedNames(struct_types[dep_name].members, inserted),
                            !.expanded = Append(call.expanded, dep_name)]
              /\ ret' = ret
  /\ UNCHANGED <<typed_data, built, struct_types, type_hash_cell, domain_separator,
                 request, chain_id, signing>>

\* The stack is empty: the primary first, the other visited names sorted
VisitCollect ==
  /\ call.op = "visiting"
  /\ call.pc = "loop"
  /\ call.stack = <<>>
  /\ call' = [call EXCEPT !.pc = "done"]
  /\ ret' = Ok(<<call.primary_type>> \o SortNames(call.visited \ {call.primary_type}))
  /\ UNCHANGED <<typed_data, built, struct_types, type_hash_cell, domain_separator,
                 request, chain_id, signing>>

\* ret starts as a list without names, the kind of value the call returns
InitVisit ==
  /\ typed_data \in RegistryDocs
  /\ Constructed(typed_data)
  /\ call = NoCall
  /\ ret = Ok(<<>>)
  /\ request = NoRequest
  /\ chain_id = 0
  /\ signing = NoSigning

NextVisit ==
  \/ \E primary_type \in DOMAIN struct_types \cup {Undeclared} : VisitBegin(primary_type)
  \/ VisitPop
  \/ VisitCollect

\* The loop is sequential code: an iteration that can run does run.
SpecVisit == InitVisit /\ [][NextVisit]_vars /\ WF_vars(VisitPop) /\ WF_vars(VisitCollect)

\* C27: get_referenced_structs terminates on every registry, also when
\* structs refer to themselves or to each other in a cycle: no struct name is
\* expanded twice, every call that has begun ends, and it ends with the
\* ordered list or with an error.
C27_ResolverTerminates ==
  /\ [](call.op = "visiting" =>
          /\ \A i, j \in 1..Len(call.expanded) : i # j => call.expanded[i] # call.expanded[j]
          /\ call.pc = "done" =>
               ret = get_referenced_structs(struct_types, call.primary_type))
  /\ (call.op = "visiting") ~> (call.op = "visiting" /\ call.pc = "done")

\* Witness: the call ended with a list for a primary struct that lies on a
\* cycle through another struct.
C27_Witness ==
  /\ call.op = "visiting"
  /\ call.pc = "done"
  /\ ret.ok
  /\ \E n \in DOMAIN struct_types \ {call.primary_type} :
        /\ n \in RefsOf(struct_types, call.primary_type)
        /\ call.primary_type \in RefsOf(struct_types, n)

\* C22: sign_transaction on a request whose hashing fails reports the failure
\* of the hashing stage, as SignError::Hash carrying the error of
\* message_hash and so apart from a failure of the signer, and does not
\* invoke the signer.
C22_TransactionHashFailureTagged ==
  signing.op = "sign_transaction" /\ ~message_hash(request, chain_id).ok =>
    /\ signing.invoked = <<>>
    /\ Started =>
         /\ Done
         /\ ~ret.ok
         /\ ret.err = SignError_Hash(message_hash(request, chain_id).err)

\* C30: on every signing path, for a transaction request, a typed-data
\* message and a string message, what message_hash returned and the sign
\* workflow hands to the signer is a digest of 32 bytes: a keccak256 digest,
\* not the bytes it would be computed from.
C30_DigestOf32Bytes ==
  signing.op # "none" /\ signing.digest.some /\ SignedBytes.ok =>
    IF signing.op = "sign_message" /\ signing.message.t = "String"
    THEN \* the bytes of a string message are a byte sequence
         Len(signing.digest.v) = 32
    ELSE "keccak" \in DOMAIN signing.digest.v
====
